---- MODULE Spec2Model ----
(***************************************************************************)
(* A model of rosbag's Bag (src/src/bag.cpp): the writer of the chunked    *)
(* version 1.03 bag file, its trailer and index, the reader that loads     *)
(* them back, and the merged topic query.                                  *)
(*                                                                         *)
(* Abstraction of sizes: every record written to the file (version line,   *)
(* FILE_HEADER, CHUNK header, MSG_DEF, MSG_DATA, INDEX_DATA, CHUNK_INFO)   *)
(* occupies one cell of the file, and a file position is a number of       *)
(* cells.  The compressed body of a BZ2 or ZLIB chunk is one cell (a       *)
(* blob) whatever the number of records compressed into it, so the         *)
(* compressed and the uncompressed size of a chunk differ as they do on    *)
(* disk.                                                                   *)
(***************************************************************************)
EXTENDS Integers, Sequences, FiniteSets, TLC

\* ------------------------------------------------------------------ bounds
MaxWrites == 3
MaxOpens == 2
MaxReadOpens == 1
MaxTime == 2
MaxType == 1
MaxThreshold == 1
MaxGarbage == 1
MaxIdx == 3
MaxReads == 1
MaxWall == 60
MaxInst == 2
MaxTypeWritten == 2

\* ------------------------------------------------------- program constants
\* Bag::Bag(): chunk_threshold_(768 * 1024); in cells, more than any chunk holds
DefaultChunkThreshold == 786432
\* the opcodes and versions of rosbag/constants.h, as the spec lists them
INDEX_VERSION == 1
CHUNK_INFO_VERSION == 1
\* scheduledCheckDisk's period and checkLogging's warning period, in seconds
CheckDiskPeriod == 20
WarnPeriod == 5
\* rosbag/constants.h is not among the sources: spec 2, the file layout
FILE_HEADER_LENGTH == 4096

Topics == {"a", "b"}
\* std::map iterates its keys in order
TopicOrder == <<"a", "b">>
Times == 1..MaxTime
Types == 1..MaxType
Compressions == {"None", "BZ2", "ZLIB"}
Thresholds == (1..MaxThreshold) \cup {DefaultChunkThreshold}
WritableModes == {"Write", "Append", "ReadAppend"}
Modes == WritableModes \cup {"Read"}
FreeSpaces == {"below1GB", "below5GB", "plenty"}

\* ----------------------------------------------------------------- helpers
Max(a, b) == IF a >= b THEN a ELSE b
Min(a, b) == IF a <= b THEN a ELSE b

EmptyMap == [x \in {} |-> 0]
MapPut(f, k, v) == [x \in (DOMAIN f) \cup {k} |-> IF x = k THEN v ELSE f[x]]
\* the keys of a std::map in iteration order
Keys(f) == SelectSeq(TopicOrder, LAMBDA t : t \in DOMAIN f)

RECURSIVE Zeros(_)
Zeros(n) == IF n <= 0 THEN <<>> ELSE <<[op |-> "ZERO"]>> \o Zeros(n - 1)

\* --------------------------------------------------------- cells of a file
RecordOps == {"MSG_DEF", "MSG_DATA", "FILE_HEADER", "INDEX_DATA", "CHUNK", "CHUNK_INFO"}
VersionLine == [op |-> "VERSION", version |-> 103]

\* the compressed body of a chunk: the records fed to the compressor
Blob(mode, recs) == [op |-> "BLOB", compression |-> mode, recs |-> recs]

\* ------------------------------------------------- the Bag and its file
\* A machine value m is a record of the Bag object's members, of its
\* ChunkedFile member file_ (file_isOpen, file_offset, file_writeMode,
\* file_compressedIn), of the file on disk, and of what the handler reads
\* from its environment (wall_now, free_space, garbage_).

\* Bag::Bag()
NewBag ==
    [ mode_ |-> "Unset", version_ |-> 0,
      compression_ |-> "BZ2", chunk_threshold_ |-> DefaultChunkThreshold,
      file_header_pos_ |-> 0, index_data_pos_ |-> 0,
      topic_count_ |-> 0, chunk_count_ |-> 0,
      chunk_open_ |-> FALSE, curr_chunk_data_pos_ |-> 0,
      decompressed_chunk_ |-> 0, writing_enabled_ |-> TRUE,
      check_disk_next_ |-> 0, warn_next_ |-> 0,
      topic_infos_ |-> EmptyMap, chunk_infos_ |-> <<>>,
      topic_indexes_ |-> EmptyMap,
      curr_chunk_info_ |-> [pos |-> 0, start_time |-> 0, end_time |-> 0,
                            topic_counts |-> EmptyMap],
      curr_chunk_topic_indexes_ |-> EmptyMap,
      decompress_buffer_ |-> <<>>, record_buffer_ |-> 0,
      file_isOpen |-> FALSE, file_offset |-> 0,
      file_writeMode |-> "None", file_compressedIn |-> <<>> ]

\* ChunkedFile (rosbag/chunked_file.h is not among the sources): spec 4.1
WriteAt(d, pos, cell) ==
    IF pos < Len(d) THEN [d EXCEPT ![pos + 1] = cell]
    ELSE d \o Zeros(pos - Len(d)) \o <<cell>>

file_write(m, cell) ==
    IF m.file_writeMode = "None"
    THEN [m EXCEPT !.disk = WriteAt(m.disk, m.file_offset, cell),
                   !.file_offset = m.file_offset + 1]
    ELSE [m EXCEPT !.file_compressedIn = Append(m.file_compressedIn, cell)]

file_setWriteMode(m, mode) ==
    IF mode = m.file_writeMode THEN m
    ELSE IF m.file_writeMode = "None"
    THEN [m EXCEPT !.file_writeMode = mode, !.file_compressedIn = <<>>]
    ELSE [m EXCEPT !.disk = WriteAt(m.disk, m.file_offset,
                                    Blob(m.file_writeMode, m.file_compressedIn)),
                   !.file_offset = m.file_offset + 1,
                   !.file_writeMode = mode, !.file_compressedIn = <<>>]

file_getCompressedBytesIn(m) == Len(m.file_compressedIn)

file_truncate(m, n) ==
    [m EXCEPT !.disk = IF n <= Len(m.disk) THEN SubSeq(m.disk, 1, n)
                       ELSE m.disk \o Zeros(n - Len(m.disk))]

\* file_.openWrite creates the file empty; openRead and openReadWrite need it
file_openWrite(m) ==
    [m EXCEPT !.disk = <<>>, !.file_isOpen = TRUE, !.file_offset = 0,
              !.file_writeMode = "None", !.file_compressedIn = <<>>]

file_openRead(m) ==
    [m EXCEPT !.file_isOpen = TRUE, !.file_offset = 0,
              !.file_writeMode = "None", !.file_compressedIn = <<>>]

file_close(m) ==
    [m EXCEPT !.file_isOpen = FALSE, !.file_offset = 0,
              !.file_writeMode = "None", !.file_compressedIn = <<>>]

\* the cell at the file position; past the end there is nothing to read
CellAt(m) ==
    IF m.file_offset < Len(m.disk) THEN m.disk[m.file_offset + 1]
    ELSE [op |-> "EOF"]

\* Bag::seek(pos), Bag::seek(n, std::ios::cur), Bag::seek(0, std::ios::end)
seek(m, pos) == [m EXCEPT !.file_offset = pos]
seekCur(m, n) == [m EXCEPT !.file_offset = m.file_offset + n]
seekEnd(m) == [m EXCEPT !.file_offset = Len(m.disk)]

\* Bag::write(char const*, n): one record, header and data, is one cell
write(m, cell) == file_write(m, cell)

\* Bag::readHeader: the header of the record at the file position. A cell
\* that is no record (the version line, compressed bytes, a hole, the end
\* of the file) does not parse.
readHeader(m) ==
    LET c == CellAt(m)
    IN  IF c.op \in RecordOps
        THEN [ok |-> TRUE, header |-> c, m |-> seekCur(m, 1)]
        ELSE [ok |-> FALSE, header |-> c,
              m |-> IF c.op = "EOF" THEN m ELSE seekCur(m, 1)]

\* Bag::isOp
isOp(fields, reqOp) == fields.op = reqOp

\* -------------------------------------------------------------- the writer
\* Bag::writeVersion
writeVersion(m) == write(m, VersionLine)

\* ros::Header::write (ros/header.h is not among the sources): spec 3, each
\* field of a header is a u32 field_len and field_len bytes "<key>=<value>"
FieldLen(key, value_len) == 4 + Len(key) + 1 + value_len

\* Bag::writeFileHeaderRecord, lines 366-375: the length of the header of
\* op (a uint8_t), index_pos (a uint64_t), topic_count and chunk_count
\* (each a uint32_t), whatever their values
FileHeaderLen ==
    FieldLen("op", 1) + FieldLen("index_pos", 8)
    + FieldLen("topic_count", 4) + FieldLen("chunk_count", 4)

\* writeFileHeaderRecord without the padding
writeFileHeaderRecordUnpadded(m) ==
    LET m1 == [m EXCEPT !.topic_count_ = Cardinality(DOMAIN m.topic_infos_),
                        !.chunk_count_ = Len(m.chunk_infos_)]
    IN  write(m1, [op |-> "FILE_HEADER", index_pos |-> m1.index_data_pos_,
                   topic_count |-> m1.topic_count_,
                   chunk_count |-> m1.chunk_count_,
                   header_len |-> FileHeaderLen, data_len |-> 0])

\* Bag::writeFileHeaderRecord. The cell carries the two lengths written
\* before the header and before the data section.
writeFileHeaderRecord(m) ==
    LET m1 == [m EXCEPT !.topic_count_ = Cardinality(DOMAIN m.topic_infos_),
                        !.chunk_count_ = Len(m.chunk_infos_)]
        header_len == FileHeaderLen
        data_len == IF header_len < FILE_HEADER_LENGTH
                    THEN FILE_HEADER_LENGTH - header_len ELSE 0
    IN  write(m1, [op |-> "FILE_HEADER", index_pos |-> m1.index_data_pos_,
                   topic_count |-> m1.topic_count_,
                   chunk_count |-> m1.chunk_count_,
                   header_len |-> header_len, data_len |-> data_len])

\* Bag::startWritingVersion103
startWritingVersion103(m) ==
    LET m1 == writeVersion(m)
        m2 == [m1 EXCEPT !.file_header_pos_ = m1.file_offset]
    IN  writeFileHeaderRecord(m2)

\* uint32_t arithmetic: a negative difference wraps to a number above every
\* chunk threshold (2^32 + d; the model's integers stop at 2^31 - 1)
U32(d) == IF d >= 0 THEN d ELSE 2147483647 + d

\* Bag::getChunkOffset
getChunkOffset(m) ==
    IF m.compression_ = "None"
    THEN U32(m.file_offset - m.curr_chunk_data_pos_)
    ELSE file_getCompressedBytesIn(m)

\* Bag::writeChunkHeader
writeChunkHeader(m, compression, compressed_size, uncompressed_size) ==
    write(m, [op |-> "CHUNK", compression |-> compression,
              compressed_size |-> compressed_size,
              size |-> uncompressed_size])

\* Bag::startWritingChunk
startWritingChunk(m, time) ==
    LET m1 == [m EXCEPT !.curr_chunk_info_.pos = m.file_offset,
                        !.curr_chunk_info_.start_time = time,
                        !.curr_chunk_info_.end_time = time]
        m2 == writeChunkHeader(m1, m1.compression_, 0, 0)
        m3 == file_setWriteMode(m2, m2.compression_)
    IN  [m3 EXCEPT !.curr_chunk_data_pos_ = m3.file_offset,
                   !.chunk_open_ = TRUE]

\* Bag::writeTopicIndexRecords: one INDEX_DATA record per topic of
\* curr_chunk_topic_indexes_, each entry written as (sec, nsec, offset)
RECURSIVE writeTopicIndexRecordsFrom(_, _)
writeTopicIndexRecordsFrom(m, topics) ==
    IF topics = <<>> THEN m
    ELSE LET topic == Head(topics)
             topic_index == m.curr_chunk_topic_indexes_[topic]
             m1 == write(m, [op |-> "INDEX_DATA", topic |-> topic,
                             ver |-> INDEX_VERSION,
                             count |-> Len(topic_index),
                             entries |-> [i \in 1..Len(topic_index) |->
                                 [time |-> topic_index[i].time,
                                  offset |-> topic_index[i].offset]]])
         IN  writeTopicIndexRecordsFrom(m1, Tail(topics))

writeTopicIndexRecords(m) ==
    writeTopicIndexRecordsFrom(m, Keys(m.curr_chunk_topic_indexes_))

\* Bag::stopWritingChunk, lines 543-548: topic_indexes_[t].push_back(e) for
\* every entry of the current chunk
MergeChunkIndexes(topic_indexes, chunk_indexes) ==
    [t \in (DOMAIN topic_indexes) \cup (DOMAIN chunk_indexes) |->
        (IF t \in DOMAIN topic_indexes THEN topic_indexes[t] ELSE <<>>)
        \o (IF t \in DOMAIN chunk_indexes THEN chunk_indexes[t] ELSE <<>>)]

\* Bag::stopWritingChunk
stopWritingChunk(m) ==
    LET m1 == [m EXCEPT !.chunk_infos_ = Append(m.chunk_infos_, m.curr_chunk_info_),
                        !.topic_indexes_ = MergeChunkIndexes(m.topic_indexes_,
                                                m.curr_chunk_topic_indexes_)]
        uncompressed_size == getChunkOffset(m1)
        m2 == file_setWriteMode(m1, "None")
        compressed_size == U32(m2.file_offset - m2.curr_chunk_data_pos_)
        end_of_chunk_pos == m2.file_offset
        m3 == writeChunkHeader(seek(m2, m2.curr_chunk_info_.pos),
                               m2.compression_, compressed_size, uncompressed_size)
        m4 == writeTopicIndexRecords(seek(m3, end_of_chunk_pos))
    IN  [m4 EXCEPT !.curr_chunk_topic_indexes_ = EmptyMap,
                   !.chunk_open_ = FALSE]

\* Bag::writeMessageDefinitionRecord
writeMessageDefinitionRecord(m, topic_info) ==
    write(m, [op |-> "MSG_DEF", topic |-> topic_info.topic,
              md5 |-> topic_info.md5sum, type |-> topic_info.datatype,
              def |-> topic_info.msg_def])

\* Bag::writeMessageDefinitionRecords
RECURSIVE writeMessageDefinitionRecordsFrom(_, _)
writeMessageDefinitionRecordsFrom(m, topics) ==
    IF topics = <<>> THEN m
    ELSE writeMessageDefinitionRecordsFrom(
             writeMessageDefinitionRecord(m, m.topic_infos_[Head(topics)]),
             Tail(topics))

writeMessageDefinitionRecords(m) ==
    writeMessageDefinitionRecordsFrom(m, Keys(m.topic_infos_))

\* writeMessageDataRecord that takes the time of the last message for end_time
writeMessageDataRecordLastTime(m, topic, time, msg) ==
    LET m1 == write(m, [op |-> "MSG_DATA", topic |-> topic, time |-> time,
                        data |-> msg.data])
    IN  [m1 EXCEPT !.curr_chunk_info_.end_time = time]

\* Bag::writeMessageDataRecord (no connection header: latching is false)
writeMessageDataRecord(m, topic, time, msg) ==
    LET m1 == write(m, [op |-> "MSG_DATA", topic |-> topic, time |-> time,
                        data |-> msg.data])
    IN  IF time > m1.curr_chunk_info_.end_time
        THEN [m1 EXCEPT !.curr_chunk_info_.end_time = time]
        ELSE m1

\* Bag::writeChunkInfoRecords
RECURSIVE writeChunkInfoRecordsFrom(_, _)
writeChunkInfoRecordsFrom(m, i) ==
    IF i > Len(m.chunk_infos_) THEN m
    ELSE LET chunk_info == m.chunk_infos_[i]
             m1 == write(m, [op |-> "CHUNK_INFO", ver |-> CHUNK_INFO_VERSION,
                             chunk_pos |-> chunk_info.pos,
                             start_time |-> chunk_info.start_time,
                             end_time |-> chunk_info.end_time,
                             count |-> Cardinality(DOMAIN chunk_info.topic_counts),
                             topic_counts |-> chunk_info.topic_counts])
         IN  writeChunkInfoRecordsFrom(m1, i + 1)

writeChunkInfoRecords(m) == writeChunkInfoRecordsFrom(m, 1)

\* Bag::stopWritingVersion103
stopWritingVersion103(m) ==
    LET m1 == IF m.chunk_open_ THEN stopWritingChunk(m) ELSE m
        m2 == [m1 EXCEPT !.index_data_pos_ = m1.file_offset]
        m3 == writeChunkInfoRecords(writeMessageDefinitionRecords(m2))
        m4 == writeFileHeaderRecord(seek(m3, m3.file_header_pos_))
    IN  [m4 EXCEPT !.topic_infos_ = EmptyMap]

\* Bag::closeWrite
closeWrite(m) == stopWritingVersion103(m)

\* close that does not ask whether the file is open
closeAlways(m) ==
    file_close(IF m.mode_ \in WritableModes THEN closeWrite(m) ELSE m)

\* Bag::close
close(m) ==
    IF ~m.file_isOpen THEN m
    ELSE file_close(IF m.mode_ \in WritableModes THEN closeWrite(m) ELSE m)

\* ------------------------------------------------------------ the disk guard
\* Bag::checkDisk: the value returned and the machine after it
checkDisk(m) ==
    IF m.free_space = "below1GB"
    THEN [ret |-> FALSE, m |-> [m EXCEPT !.writing_enabled_ = FALSE]]
    ELSE IF m.free_space = "below5GB"
    THEN [ret |-> TRUE, m |-> m]
    ELSE [ret |-> TRUE, m |-> [m EXCEPT !.writing_enabled_ = TRUE]]

\* Bag::scheduledCheckDisk
scheduledCheckDisk(m) ==
    IF m.wall_now < m.check_disk_next_ THEN [ret |-> TRUE, m |-> m]
    ELSE checkDisk([m EXCEPT !.check_disk_next_ = m.check_disk_next_ + CheckDiskPeriod])

\* checkLogging that lets every message through
checkLoggingAlways(m) == [ret |-> TRUE, m |-> m]

\* Bag::checkLogging
checkLogging(m) ==
    IF m.writing_enabled_ THEN [ret |-> TRUE, m |-> m]
    ELSE IF m.wall_now >= m.warn_next_
    THEN [ret |-> FALSE, m |-> [m EXCEPT !.warn_next_ = m.wall_now + WarnPeriod]]
    ELSE [ret |-> FALSE, m |-> m]

\* Bag::write(topic, time, msg), lines 439-460: the TopicInfo of a topic
\* seen for the first time, and its empty topic index
InsertTopicInfo(m, topic, msg) ==
    [m EXCEPT !.topic_infos_ = MapPut(m.topic_infos_, topic,
                  [topic |-> topic, msg_def |-> msg.type,
                   datatype |-> msg.type, md5sum |-> msg.type]),
              !.topic_indexes_ = MapPut(m.topic_indexes_, topic, <<>>)]

\* the index entry put before the entries of the chunk, not after them
AddIndexEntryFirst(m, topic, time) ==
    LET index_entry == [time |-> time, chunk_pos |-> m.curr_chunk_info_.pos,
                        offset |-> getChunkOffset(m)]
        cur == m.curr_chunk_topic_indexes_
        cnt == m.curr_chunk_info_.topic_counts
    IN  [m EXCEPT !.curr_chunk_topic_indexes_ = MapPut(cur, topic,
                      <<index_entry>> \o (IF topic \in DOMAIN cur THEN cur[topic] ELSE <<>>)),
                  !.curr_chunk_info_.topic_counts = MapPut(cnt, topic,
                      (IF topic \in DOMAIN cnt THEN cnt[topic] ELSE 0) + 1)]

\* Bag::write(topic, time, msg), lines 490-498: the index entry of the
\* message and its count in the current chunk
AddIndexEntry(m, topic, time) ==
    LET index_entry == [time |-> time, chunk_pos |-> m.curr_chunk_info_.pos,
                        offset |-> getChunkOffset(m)]
        cur == m.curr_chunk_topic_indexes_
        cnt == m.curr_chunk_info_.topic_counts
    IN  [m EXCEPT !.curr_chunk_topic_indexes_ = MapPut(cur, topic,
                      Append(IF topic \in DOMAIN cur THEN cur[topic] ELSE <<>>,
                             index_entry)),
                  !.curr_chunk_info_.topic_counts = MapPut(cnt, topic,
                      (IF topic \in DOMAIN cnt THEN cnt[topic] ELSE 0) + 1)]

\* write that takes every message for the first of its topic
Bag_writeRedefining(m, topic, time, msg) ==
    LET logging == checkLogging(m)
    IN  IF ~logging.ret THEN logging.m
        ELSE
        LET m1 == InsertTopicInfo(m, topic, msg)
            m2 == scheduledCheckDisk(m1).m
            m3 == seekEnd(m2)
            m4 == IF ~m3.chunk_open_ THEN startWritingChunk(m3, time) ELSE m3
            m5 == AddIndexEntry(m4, topic, time)
            m6 == writeMessageDefinitionRecord(m5, m5.topic_infos_[topic])
            m7 == writeMessageDataRecord(m6, topic, time, msg)
        IN  IF getChunkOffset(m7) > m7.chunk_threshold_
            THEN stopWritingChunk(m7) ELSE m7

\* write that closes the chunk when its size has reached the threshold
Bag_writeClosingAtThreshold(m, topic, time, msg) ==
    LET logging == checkLogging(m)
    IN  IF ~logging.ret THEN logging.m
        ELSE
        LET needs_def_written == topic \notin DOMAIN m.topic_infos_
            m1 == IF needs_def_written THEN InsertTopicInfo(m, topic, msg) ELSE m
            m2 == scheduledCheckDisk(m1).m
            m3 == seekEnd(m2)
            m4 == IF ~m3.chunk_open_ THEN startWritingChunk(m3, time) ELSE m3
            m5 == AddIndexEntry(m4, topic, time)
            m6 == IF needs_def_written
                  THEN writeMessageDefinitionRecord(m5, m5.topic_infos_[topic])
                  ELSE m5
            m7 == writeMessageDataRecord(m6, topic, time, msg)
        IN  IF getChunkOffset(m7) >= m7.chunk_threshold_
            THEN stopWritingChunk(m7) ELSE m7

\* Bag::write(topic, time, msg)
Bag_write(m, topic, time, msg) ==
    LET logging == checkLogging(m)
    IN  IF ~logging.ret THEN logging.m
        ELSE
        LET needs_def_written == topic \notin DOMAIN m.topic_infos_
            m1 == IF needs_def_written THEN InsertTopicInfo(m, topic, msg) ELSE m
            m2 == scheduledCheckDisk(m1).m
            m3 == seekEnd(m2)
            m4 == IF ~m3.chunk_open_ THEN startWritingChunk(m3, time) ELSE m3
            m5 == AddIndexEntry(m4, topic, time)
            m6 == IF needs_def_written
                  THEN writeMessageDefinitionRecord(m5, m5.topic_infos_[topic])
                  ELSE m5
            m7 == writeMessageDataRecord(m6, topic, time, msg)
        IN  IF getChunkOffset(m7) > m7.chunk_threshold_
            THEN stopWritingChunk(m7) ELSE m7

\* -------------------------------------------------------------- the reader
\* Bag::readVersion. The line of a file written by writeVersion is the
\* version cell. A file that does not start with one (a hole left by a
\* truncation to 0) has no line end: getline reads to the end of the file,
\* sscanf matches nothing and version_ is computed from uninitialised ints.
readVersion(m) ==
    IF CellAt(m).op = "VERSION"
    THEN [seekCur(m, 1) EXCEPT !.file_header_pos_ = m.file_offset + 1,
                               !.version_ = CellAt(m).version]
    ELSE [seekEnd(m) EXCEPT !.file_header_pos_ = Len(m.disk),
                            !.version_ = IF m.garbage_ = 0 THEN 103 ELSE m.garbage_]

\* Bag::readFileHeaderRecord
readFileHeaderRecord(m) ==
    LET parse(h, fields) ==
            IF ~h.ok THEN [ok |-> FALSE, m |-> h.m]
            ELSE IF ~isOp(fields, "FILE_HEADER") THEN [ok |-> FALSE, m |-> h.m]
            ELSE [ok |-> TRUE,
                  m |-> IF h.m.version_ >= 103
                        THEN [h.m EXCEPT !.index_data_pos_ = fields.index_pos,
                                         !.topic_count_ = fields.topic_count,
                                         !.chunk_count_ = fields.chunk_count]
                        ELSE [h.m EXCEPT !.index_data_pos_ = fields.index_pos]]
    IN  parse(readHeader(m), CellAt(m))

\* Bag::readMessageDefinitionRecord
readMessageDefinitionRecord(m) ==
    LET parse(h, fields) ==
            IF ~h.ok THEN [ok |-> FALSE, m |-> h.m]
            ELSE IF ~isOp(fields, "MSG_DEF") THEN [ok |-> FALSE, m |-> h.m]
            ELSE [ok |-> TRUE,
                  m |-> IF fields.topic \notin DOMAIN h.m.topic_infos_
                        THEN [h.m EXCEPT !.topic_infos_ = MapPut(h.m.topic_infos_,
                                  fields.topic,
                                  [topic |-> fields.topic, msg_def |-> fields.def,
                                   datatype |-> fields.type, md5sum |-> fields.md5])]
                        ELSE h.m]
    IN  parse(readHeader(m), CellAt(m))

\* Bag::readChunkInfoRecord
readChunkInfoRecord(m) ==
    LET parse(h, fields) ==
            IF ~h.ok THEN [ok |-> FALSE, m |-> h.m]
            ELSE IF ~isOp(fields, "CHUNK_INFO") THEN [ok |-> FALSE, m |-> h.m]
            ELSE [ok |-> TRUE,
                  m |-> [h.m EXCEPT !.chunk_infos_ = Append(h.m.chunk_infos_,
                             [pos |-> fields.chunk_pos,
                              start_time |-> fields.start_time,
                              end_time |-> fields.end_time,
                              topic_counts |-> fields.topic_counts])]]
    IN  parse(readHeader(m), CellAt(m))

\* the length of the data of a record that lies after its cell: the body
\* of a chunk; the data of every other record is in its cell
DataSize(fields) ==
    IF "compressed_size" \in DOMAIN fields THEN fields.compressed_size ELSE 0

\* Bag::readChunkHeader. compressed_size is set by readHeader: it stays
\* uninitialised when the header does not parse, and is the data length of
\* the record read when the op of the record is not CHUNK.
readChunkHeader(m) ==
    LET parse(h, fields) ==
            IF ~h.ok
            THEN [ok |-> FALSE, m |-> h.m,
                  chunk_header |-> [compression |-> "garbage",
                                    compressed_size |-> m.garbage_,
                                    uncompressed_size |-> m.garbage_]]
            ELSE IF ~isOp(fields, "CHUNK")
            THEN [ok |-> FALSE, m |-> h.m,
                  chunk_header |-> [compression |-> "garbage",
                                    compressed_size |-> DataSize(fields),
                                    uncompressed_size |-> m.garbage_]]
            ELSE [ok |-> TRUE, m |-> h.m,
                  chunk_header |-> [compression |-> fields.compression,
                                    compressed_size |-> fields.compressed_size,
                                    uncompressed_size |-> fields.size]]
    IN  parse(readHeader(m), CellAt(m))

\* Bag::readTopicIndexDataVersion1
readTopicIndexDataVersion1(m, fields) ==
    LET old == IF fields.topic \in DOMAIN m.topic_indexes_
               THEN m.topic_indexes_[fields.topic] ELSE <<>>
        new == [i \in 1..fields.count |->
                   [time |-> fields.entries[i].time,
                    chunk_pos |-> m.curr_chunk_info_.pos,
                    offset |-> fields.entries[i].offset]]
    IN  [ok |-> TRUE,
         m |-> [m EXCEPT !.topic_indexes_ =
                    MapPut(m.topic_indexes_, fields.topic, old \o new)]]

\* Bag::readTopicIndexRecord (the writer emits ver = INDEX_VERSION only, so
\* the version 0 layout of 1.02 files is never met)
readTopicIndexRecord(m) ==
    LET parse(h, fields) ==
            IF ~h.ok THEN [ok |-> FALSE, m |-> h.m]
            ELSE IF ~isOp(fields, "INDEX_DATA") THEN [ok |-> FALSE, m |-> h.m]
            ELSE IF fields.ver = 1 THEN readTopicIndexDataVersion1(h.m, fields)
            ELSE [ok |-> FALSE, m |-> h.m]
    IN  parse(readHeader(m), CellAt(m))

\* n times read(m), stopping at the first failure
RECURSIVE readMessageDefinitionRecords(_, _)
readMessageDefinitionRecords(m, n) ==
    IF n = 0 THEN [ok |-> TRUE, m |-> m]
    ELSE LET next(r) == IF ~r.ok THEN r ELSE readMessageDefinitionRecords(r.m, n - 1)
         IN  next(readMessageDefinitionRecord(m))

RECURSIVE readChunkInfoRecords(_, _)
readChunkInfoRecords(m, n) ==
    IF n = 0 THEN [ok |-> TRUE, m |-> m]
    ELSE LET next(r) == IF ~r.ok THEN r ELSE readChunkInfoRecords(r.m, n - 1)
         IN  next(readChunkInfoRecord(m))

RECURSIVE readTopicIndexRecords(_, _)
readTopicIndexRecords(m, n) ==
    IF n = 0 THEN [ok |-> TRUE, m |-> m]
    ELSE LET next(r) == IF ~r.ok THEN r ELSE readTopicIndexRecords(r.m, n - 1)
         IN  next(readTopicIndexRecord(m))

\* Bag::startReadingVersion103, lines 296-310: the topic indexes of the
\* chunks of chunk_infos_, from the i-th on
RECURSIVE readChunkIndexes(_, _)
readChunkIndexes(m, i) ==
    IF i > Len(m.chunk_infos_) THEN [ok |-> TRUE, m |-> m]
    ELSE LET chunk_info == m.chunk_infos_[i]
             indexes(ch) ==
                 readTopicIndexRecords(
                     seekCur(ch.m, ch.chunk_header.compressed_size),
                     Cardinality(DOMAIN chunk_info.topic_counts))
             next(r) == IF ~r.ok THEN r ELSE readChunkIndexes(r.m, i + 1)
         IN  next(indexes(readChunkHeader(
                 seek([m EXCEPT !.curr_chunk_info_ = chunk_info], chunk_info.pos))))

\* Bag::startReadingVersion103
startReadingVersion103(m) ==
    LET chunks(infos) ==
            IF ~infos.ok THEN infos ELSE readChunkIndexes(infos.m, 1)
        infos(defs) ==
            IF ~defs.ok THEN defs
            ELSE chunks(readChunkInfoRecords(defs.m, defs.m.chunk_count_))
        defs(fh) ==
            IF ~fh.ok THEN fh
            ELSE infos(readMessageDefinitionRecords(
                           seek(fh.m, fh.m.index_data_pos_), fh.m.topic_count_))
    IN  defs(readFileHeaderRecord(m))

\* ------------------------------------------------------------------- open
\* Bag::openRead (no version 1.02 file is ever written here, and a garbage
\* version_ is met only at the end of the file, where every version fails)
openRead(m) ==
    IF Len(m.disk) = 0 THEN [ok |-> FALSE, m |-> m]
    ELSE LET start(m1) == IF m1.version_ = 103 THEN startReadingVersion103(m1)
                           ELSE [ok |-> FALSE, m |-> m1]
         IN  start(readVersion(file_openRead(m)))

\* Bag::openWrite
openWrite(m) ==
    LET arm(m2) == [m2 EXCEPT !.check_disk_next_ = m2.wall_now + CheckDiskPeriod]
    IN  [ok |-> TRUE,
         m |-> startWritingVersion103(
                   arm(checkDisk([file_openWrite(m) EXCEPT !.warn_next_ = 0]).m))]

\* openAppend that reads the header and truncates, the trailer not loaded
openAppendTruncateUnloaded(m) ==
    LET arm(m2) == [m2 EXCEPT !.check_disk_next_ = m2.wall_now + CheckDiskPeriod]
        truncate(m4) == file_truncate(m4, m4.index_data_pos_)
    IN  truncate(readFileHeaderRecord(readVersion(
            arm(checkDisk([file_openRead(m) EXCEPT !.warn_next_ = 0]).m))).m)

\* Bag::openAppend, lines 123-138: up to the truncation of the file to
\* index_data_pos_ (the value of startReadingVersion103 is not looked at)
openAppendTruncate(m) ==
    LET arm(m2) == [m2 EXCEPT !.check_disk_next_ = m2.wall_now + CheckDiskPeriod]
        truncate(m4) == file_truncate(m4, m4.index_data_pos_)
    IN  truncate(startReadingVersion103(readVersion(
            arm(checkDisk([file_openRead(m) EXCEPT !.warn_next_ = 0]).m))).m)

\* Bag::openAppend
openAppend(m) ==
    IF Len(m.disk) = 0 THEN [ok |-> FALSE, m |-> m]
    ELSE LET header(m6) == writeFileHeaderRecord(seek(m6, m6.file_header_pos_))
         IN  [ok |-> TRUE,
              m |-> seekEnd(header([openAppendTruncate(m)
                                       EXCEPT !.index_data_pos_ = 0]))]

\* Bag::open
open(m, mode) ==
    LET m1 == [m EXCEPT !.mode_ = mode]
    IN  CASE mode = "Read" -> openRead(m1)
          [] mode = "Write" -> openWrite(m1)
          [] OTHER -> openAppend(m1)

\* ----------------------------------------------------- random-access read
\* ChunkedFile::read of n cells into chunk_buffer_ and ChunkedFile::decompress
\* (spec 4.1): the records of a blob written by the same compressor; anything
\* else does not decompress and leaves the buffer without a record
decompressed(m, compression, n) ==
    LET c == CellAt(m)
    IN  IF n = 1 /\ c.op = "BLOB" /\ c.compression = compression
        THEN c.recs ELSE <<>>

\* Bag::decompressChunk
decompressChunk(m, chunk_pos) ==
    IF m.decompressed_chunk_ = chunk_pos THEN [ok |-> TRUE, m |-> m]
    ELSE LET ch == readChunkHeader(seek(m, chunk_pos))
             compression == ch.chunk_header.compression
         IN  IF ~ch.ok THEN [ok |-> FALSE, m |-> ch.m]
             ELSE IF compression \notin Compressions THEN [ok |-> FALSE, m |-> ch.m]
             ELSE IF compression = "None" THEN [ok |-> TRUE, m |-> ch.m]
             ELSE [ok |-> TRUE,
                   m |-> [seekCur(ch.m, ch.chunk_header.compressed_size) EXCEPT
                            !.decompress_buffer_ = decompressed(ch.m, compression,
                                             ch.chunk_header.compressed_size),
                            !.decompressed_chunk_ = chunk_pos]]

\* Bag::readMessageDataRecord103, lines 939-964: the record at offset of
\* decompress_buffer_, after any MSG_DEF records. ret is "ok" (true), "fail"
\* (false), or "abort" where an assertion stops the process.
RECURSIVE readFromBuffer(_, _, _)
readFromBuffer(m, topic, offset) ==
    IF Len(m.decompress_buffer_) = 0 THEN [ret |-> "abort", m |-> m]
    ELSE IF offset >= Len(m.decompress_buffer_) THEN [ret |-> "fail", m |-> m]
    ELSE LET header == m.decompress_buffer_[offset + 1]
         IN  IF header.op = "MSG_DEF" THEN readFromBuffer(m, topic, offset + 1)
             ELSE IF header.op # "MSG_DATA" THEN [ret |-> "abort", m |-> m]
             ELSE IF header.topic # topic THEN [ret |-> "abort", m |-> m]
             ELSE [ret |-> "ok", m |-> [m EXCEPT !.record_buffer_ = header.data]]

\* Bag::readMessageDataRecord103, lines 966-986: the record at the file
\* position, after any MSG_DEF records
RECURSIVE readFromFile(_, _)
readFromFile(m, topic) ==
    LET h == readHeader(m)
    IN  IF ~h.ok THEN [ret |-> "fail", m |-> h.m]
        ELSE IF h.header.op = "MSG_DEF" THEN readFromFile(h.m, topic)
        ELSE IF h.header.op # "MSG_DATA" THEN [ret |-> "abort", m |-> h.m]
        ELSE IF h.header.topic # topic THEN [ret |-> "abort", m |-> h.m]
        ELSE [ret |-> "ok", m |-> [h.m EXCEPT !.record_buffer_ = h.header.data]]

\* Bag::readMessageDataRecord103
readMessageDataRecord103(m, topic, chunk_pos, offset) ==
    LET ch == IF m.decompressed_chunk_ # chunk_pos
              THEN readChunkHeader(seek(m, chunk_pos))
              ELSE [ok |-> TRUE, m |-> m]
    IN  IF ~ch.ok THEN [ret |-> "fail", m |-> ch.m]
        ELSE LET m1 == IF m.decompressed_chunk_ # chunk_pos
                          /\ ch.chunk_header.compression = "BZ2"
                       THEN decompressChunk(ch.m, chunk_pos).m
                       ELSE ch.m
             IN  IF m1.decompressed_chunk_ = chunk_pos
                 THEN readFromBuffer(m1, topic, offset)
                 ELSE readFromFile(seekCur(m1, offset), topic)

\* ------------------------------------------------------ getMessagesByTopic
\* std::lower_bound / std::upper_bound with IndexEntryCompare (by time), as
\* called at lines 1268-1269: the halving search of the library, which on
\* an index that is not sorted still returns a position of the index
RECURSIVE LowerBoundFrom(_, _, _, _)
LowerBoundFrom(index_entries, first, len, time) ==
    IF len <= 0 THEN first
    ELSE LET half == len \div 2
             middle == first + half
         IN  IF index_entries[middle + 1].time < time
             THEN LowerBoundFrom(index_entries, middle + 1, len - half - 1, time)
             ELSE LowerBoundFrom(index_entries, first, half, time)

LowerBound(index_entries, time) ==
    LowerBoundFrom(index_entries, 0, Len(index_entries), time)

RECURSIVE UpperBoundFrom(_, _, _, _)
UpperBoundFrom(index_entries, first, len, time) ==
    IF len <= 0 THEN first
    ELSE LET half == len \div 2
             middle == first + half
         IN  IF time < index_entries[middle + 1].time
             THEN UpperBoundFrom(index_entries, first, half, time)
             ELSE UpperBoundFrom(index_entries, middle + 1, len - half - 1, time)

UpperBound(index_entries, time) ==
    UpperBoundFrom(index_entries, 0, Len(index_entries), time)

\* the comparison turned round: the queue serves the latest entry first
MergeCompareLess(ix, a, b) == ix[a.topic][a.iter + 1].time < ix[b.topic][b.iter + 1].time

\* MergeCompare: a and b are MergeHelpers [iter, end, topic], iter and end
\* positions (from 0) of the topic's index
MergeCompare(ix, a, b) == ix[a.topic][a.iter + 1].time > ix[b.topic][b.iter + 1].time

\* std::priority_queue<MergeHelper*, vector<MergeHelper*>, MergeCompare>:
\* push is push_back and std::push_heap, pop is std::pop_heap and pop_back
RECURSIVE PushHeapFrom(_, _, _, _, _)
PushHeapFrom(ix, heap, holeIndex, topIndex, value) ==
    IF holeIndex > topIndex
       /\ MergeCompare(ix, heap[((holeIndex - 1) \div 2) + 1], value)
    THEN PushHeapFrom(ix, [heap EXCEPT ![holeIndex + 1] = heap[((holeIndex - 1) \div 2) + 1]],
                      (holeIndex - 1) \div 2, topIndex, value)
    ELSE [heap EXCEPT ![holeIndex + 1] = value]

QueuePush(ix, heap, value) ==
    PushHeapFrom(ix, Append(heap, value), Len(heap), 0, value)

RECURSIVE AdjustHeapFrom(_, _, _, _, _, _)
AdjustHeapFrom(ix, heap, holeIndex, secondChild, len, value) ==
    IF secondChild < (len - 1) \div 2
    THEN LET c == 2 * (secondChild + 1)
             child == IF MergeCompare(ix, heap[c + 1], heap[c]) THEN c - 1 ELSE c
         IN  AdjustHeapFrom(ix, [heap EXCEPT ![holeIndex + 1] = heap[child + 1]],
                            child, child, len, value)
    ELSE IF len % 2 = 0 /\ secondChild = (len - 2) \div 2
    THEN LET c == 2 * (secondChild + 1)
         IN  PushHeapFrom(ix, [heap EXCEPT ![holeIndex + 1] = heap[c]],
                          c - 1, 0, value)
    ELSE PushHeapFrom(ix, heap, holeIndex, 0, value)

QueuePop(ix, heap) ==
    IF Len(heap) <= 1 THEN <<>>
    ELSE AdjustHeapFrom(ix, SubSeq(heap, 1, Len(heap) - 1), 0, 0,
                        Len(heap) - 1, heap[Len(heap)])

\* Bag::getMessagesByTopic, lines 1259-1276: the queue of the MergeHelpers
\* of the requested topics. A helper whose iter is at or past the end of
\* its vector is pushed when lower_bound lies after upper_bound; it is
\* dereferenced by the queue or by the loop, which is undefined: the loop
\* then never meets iter == end and runs until the process dies (crashed).
RECURSIVE SeedQueue(_, _, _, _, _)
SeedQueue(m, topics, start_time, end_time, queue) ==
    IF topics = <<>> THEN [crashed |-> FALSE, queue |-> queue]
    ELSE LET topic == Head(topics)
         IN  IF topic \in DOMAIN m.topic_indexes_ /\ topic \in DOMAIN m.topic_infos_
             THEN LET index_entries == m.topic_indexes_[topic]
                      merge_helper == [iter |-> LowerBound(index_entries, start_time),
                                       end |-> UpperBound(index_entries, end_time),
                                       topic |-> topic]
                  IN  IF merge_helper.iter = merge_helper.end
                      THEN SeedQueue(m, Tail(topics), start_time, end_time, queue)
                      ELSE IF merge_helper.iter >= Len(index_entries)
                      THEN [crashed |-> TRUE, queue |-> queue]
                      ELSE SeedQueue(m, Tail(topics), start_time, end_time,
                               QueuePush(m.topic_indexes_, queue, merge_helper))
             ELSE SeedQueue(m, Tail(topics), start_time, end_time, queue)

\* Bag::getMessagesByTopic, lines 1278-1293
RECURSIVE MergeLoop(_, _, _)
MergeLoop(m, queue, messages) ==
    IF queue = <<>> THEN [crashed |-> FALSE, messages |-> messages]
    ELSE LET merge_helper == queue[1]
             entry == m.topic_indexes_[merge_helper.topic][merge_helper.iter + 1]
             out == Append(messages, [topic |-> m.topic_infos_[merge_helper.topic].topic,
                                      time |-> entry.time,
                                      chunk_pos |-> entry.chunk_pos,
                                      offset |-> entry.offset])
             rest == QueuePop(m.topic_indexes_, queue)
             advanced == [merge_helper EXCEPT !.iter = merge_helper.iter + 1]
         IN  IF advanced.iter = advanced.end THEN MergeLoop(m, rest, out)
             ELSE IF advanced.iter >= Len(m.topic_indexes_[advanced.topic])
             THEN [crashed |-> TRUE, messages |-> out]
             ELSE MergeLoop(m, QueuePush(m.topic_indexes_, rest, advanced), out)

\* Bag::getMessagesByTopic
getMessagesByTopic(m, topics, start_time, end_time) ==
    LET seed == SeedQueue(m, topics, start_time, end_time, <<>>)
    IN  IF seed.crashed THEN [crashed |-> TRUE, messages |-> <<>>]
        ELSE MergeLoop(m, seed.queue, <<>>)

\* the handles of the entries of topic_index with start_time <= time <
\* end_time: the end of the range left out
HandlesOfBelowEnd(topic_info, topic_index, start_time, end_time) ==
    LET within == SelectSeq(topic_index,
                            LAMBDA entry : entry.time >= start_time /\ entry.time < end_time)
    IN  [i \in 1..Len(within) |-> [topic |-> topic_info.topic, time |-> within[i].time,
                                   chunk_pos |-> within[i].chunk_pos,
                                   offset |-> within[i].offset]]

\* Bag::getMessages, lines 1311-1314: the MessageInfo of every entry of
\* topic_index with a time in the range
HandlesOf(topic_info, topic_index, start_time, end_time) ==
    LET within == SelectSeq(topic_index,
                            LAMBDA entry : entry.time >= start_time /\ entry.time <= end_time)
    IN  [i \in 1..Len(within) |-> [topic |-> topic_info.topic, time |-> within[i].time,
                                   chunk_pos |-> within[i].chunk_pos,
                                   offset |-> within[i].offset]]

\* Bag::getMessages, lines 1301-1315: the loop over topic_infos_, a
\* std::map, in the order of its keys
RECURSIVE getMessagesFrom(_, _, _, _, _)
getMessagesFrom(m, topics, start_time, end_time, messages) ==
    IF topics = <<>> THEN messages
    ELSE LET topic == Head(topics)
         IN  IF topic \notin DOMAIN m.topic_indexes_
             THEN getMessagesFrom(m, Tail(topics), start_time, end_time, messages)
             ELSE getMessagesFrom(m, Tail(topics), start_time, end_time,
                      messages \o HandlesOf(m.topic_infos_[topic], m.topic_indexes_[topic],
                                            start_time, end_time))

\* Bag::getMessages
getMessages(m, start_time, end_time) ==
    getMessagesFrom(m, Keys(m.topic_infos_), start_time, end_time, <<>>)

\* ---------------------------------------------------------------- state
VARIABLES
    \* the members of the Bag object and of its ChunkedFile file_
    mode_, version_, compression_, chunk_threshold_, file_header_pos_,
    index_data_pos_, topic_count_, chunk_count_, chunk_open_,
    curr_chunk_data_pos_, decompressed_chunk_, writing_enabled_,
    check_disk_next_, warn_next_, topic_infos_, chunk_infos_,
    topic_indexes_, curr_chunk_info_, curr_chunk_topic_indexes_,
    decompress_buffer_, record_buffer_, file_isOpen, file_offset,
    file_writeMode, file_compressedIn,
    \* the file on disk, a sequence of cells
    disk,
    \* the environment: the wall clock (seconds) and the free space statvfs reports
    wall_now, free_space,
    \* what the caller has seen: the value of the last open, the last
    \* getMessagesByTopic call and its result, the last instantiate and its result
    open_ret, messages, inst,
    \* history: the messages write() accepted into the file since it was created;
    \* sessions: the opens of the file since it was created, each with its mode,
    \* whether the Bag was newly constructed, the compression and the chunk
    \* threshold of the Bag, its writes and random-access reads, and how it ended;
    \* opened_disk: the file as it was when the last open was called;
    \* fresh: no open has been called on the Bag object since its construction
    history, sessions, opened_disk, fresh,
    \* the numbers of calls so far: open for writing, open for reading, write,
    \* instantiate
    nopens, nreadopens, nwrites, nreads,
    \* what the environment saw of the disk guard since the last open: the wall
    \* times at which write() ran the free-space probe, and the wall times at
    \* which write() logged its warning; and whether the number of the calls
    \* of write() so far is odd
    probe_times, warn_times, write_calls_odd,
    \* the files of the directory rewrite() works in, by path, and the call of
    \* rewrite() under way: its arguments, its target, its local Bag in, the
    \* messages still to copy, and what was at dest when it was called
    files, rw

bagvars == <<mode_, version_, compression_, chunk_threshold_,
           file_header_pos_, index_data_pos_, topic_count_,
           chunk_count_, chunk_open_, curr_chunk_data_pos_,
           decompressed_chunk_, writing_enabled_, check_disk_next_,
           warn_next_, topic_infos_, chunk_infos_, topic_indexes_,
           curr_chunk_info_, curr_chunk_topic_indexes_,
           decompress_buffer_, record_buffer_, file_isOpen,
           file_offset, file_writeMode, file_compressedIn>>
envvars == <<wall_now, free_space>>
seenvars == <<open_ret, messages, inst>>
ghostvars == <<history, sessions, opened_disk, fresh, nopens, nreadopens, nwrites, nreads>>
logvars == <<probe_times, warn_times, write_calls_odd>>
rwvars == <<files, rw>>
vars == <<bagvars, disk, envvars, seenvars, ghostvars, logvars, rwvars>>

\* the machine value of the current state, with g what an uninitialised read yields
Machine(g) ==
    [ mode_ |-> mode_,
      version_ |-> version_,
      compression_ |-> compression_,
      chunk_threshold_ |-> chunk_threshold_,
      file_header_pos_ |-> file_header_pos_,
      index_data_pos_ |-> index_data_pos_,
      topic_count_ |-> topic_count_,
      chunk_count_ |-> chunk_count_,
      chunk_open_ |-> chunk_open_,
      curr_chunk_data_pos_ |-> curr_chunk_data_pos_,
      decompressed_chunk_ |-> decompressed_chunk_,
      writing_enabled_ |-> writing_enabled_,
      check_disk_next_ |-> check_disk_next_,
      warn_next_ |-> warn_next_,
      topic_infos_ |-> topic_infos_,
      chunk_infos_ |-> chunk_infos_,
      topic_indexes_ |-> topic_indexes_,
      curr_chunk_info_ |-> curr_chunk_info_,
      curr_chunk_topic_indexes_ |-> curr_chunk_topic_indexes_,
      decompress_buffer_ |-> decompress_buffer_,
      record_buffer_ |-> record_buffer_,
      file_isOpen |-> file_isOpen,
      file_offset |-> file_offset,
      file_writeMode |-> file_writeMode,
      file_compressedIn |-> file_compressedIn,
      disk |-> disk,
      wall_now |-> wall_now, free_space |-> free_space, garbage_ |-> g ]

\* the next state holds the machine value m
Becomes(m) ==
    /\ mode_' = m.mode_
    /\ version_' = m.version_
    /\ compression_' = m.compression_
    /\ chunk_threshold_' = m.chunk_threshold_
    /\ file_header_pos_' = m.file_header_pos_
    /\ index_data_pos_' = m.index_data_pos_
    /\ topic_count_' = m.topic_count_
    /\ chunk_count_' = m.chunk_count_
    /\ chunk_open_' = m.chunk_open_
    /\ curr_chunk_data_pos_' = m.curr_chunk_data_pos_
    /\ decompressed_chunk_' = m.decompressed_chunk_
    /\ writing_enabled_' = m.writing_enabled_
    /\ check_disk_next_' = m.check_disk_next_
    /\ warn_next_' = m.warn_next_
    /\ topic_infos_' = m.topic_infos_
    /\ chunk_infos_' = m.chunk_infos_
    /\ topic_indexes_' = m.topic_indexes_
    /\ curr_chunk_info_' = m.curr_chunk_info_
    /\ curr_chunk_topic_indexes_' = m.curr_chunk_topic_indexes_
    /\ decompress_buffer_' = m.decompress_buffer_
    /\ record_buffer_' = m.record_buffer_
    /\ file_isOpen' = m.file_isOpen
    /\ file_offset' = m.file_offset
    /\ file_writeMode' = m.file_writeMode
    /\ file_compressedIn' = m.file_compressedIn
    /\ disk' = m.disk

\* the state holds the machine value m
Is(m) ==
    /\ mode_ = m.mode_
    /\ version_ = m.version_
    /\ compression_ = m.compression_
    /\ chunk_threshold_ = m.chunk_threshold_
    /\ file_header_pos_ = m.file_header_pos_
    /\ index_data_pos_ = m.index_data_pos_
    /\ topic_count_ = m.topic_count_
    /\ chunk_count_ = m.chunk_count_
    /\ chunk_open_ = m.chunk_open_
    /\ curr_chunk_data_pos_ = m.curr_chunk_data_pos_
    /\ decompressed_chunk_ = m.decompressed_chunk_
    /\ writing_enabled_ = m.writing_enabled_
    /\ check_disk_next_ = m.check_disk_next_
    /\ warn_next_ = m.warn_next_
    /\ topic_infos_ = m.topic_infos_
    /\ chunk_infos_ = m.chunk_infos_
    /\ topic_indexes_ = m.topic_indexes_
    /\ curr_chunk_info_ = m.curr_chunk_info_
    /\ curr_chunk_topic_indexes_ = m.curr_chunk_topic_indexes_
    /\ decompress_buffer_ = m.decompress_buffer_
    /\ record_buffer_ = m.record_buffer_
    /\ file_isOpen = m.file_isOpen
    /\ file_offset = m.file_offset
    /\ file_writeMode = m.file_writeMode
    /\ file_compressedIn = m.file_compressedIn
    /\ disk = m.disk

\* a newly constructed Bag beside the file d
Constructed(d) ==
    NewBag @@ [disk |-> d, wall_now |-> wall_now, free_space |-> free_space,
               garbage_ |-> 0]

\* ------------------------------------------------------------- the actions
Garbage == 0..MaxGarbage

NoMessages == [called |-> FALSE, topics |-> <<>>, start_time |-> 0,
               end_time |-> 0, crashed |-> FALSE, out |-> <<>>]
NoInst == [called |-> FALSE, topic |-> "", i |-> 0, ret |-> "none"]

\* the paths of the directory: two file names, and each with ".active"
Names == {"x", "y"}
Paths == Names \cup {name \o ".active" : name \in Names}

\* a path at which there is no file, and a file with its content
NoFile == [exists |-> FALSE, disk |-> <<>>]
File(d) == [exists |-> TRUE, disk |-> d]
NoFiles == [path \in Paths |-> NoFile]

\* no call of rewrite() is under way
NoRewrite ==
    [pc |-> "idle", src_filename |-> "", dest_filename |-> "",
     target_filename |-> "", in |-> NewBag, todo |-> <<>>,
     dest_before |-> NoFile, ret |-> "none"]

Session(mode, ended, ok) ==
    [mode |-> mode, fresh |-> fresh, compression |-> compression_,
     chunk_threshold |-> chunk_threshold_, writes |-> 0, reads |-> 0,
     ended |-> ended, ok |-> ok]

\* the last session of the file ends
Ended(how) ==
    IF sessions = <<>> THEN sessions
    ELSE [sessions EXCEPT ![Len(sessions)].ended = how]

Init ==
    /\ Is(NewBag @@ [disk |-> <<>>])
    /\ wall_now = 0 /\ free_space = "plenty"
    /\ open_ret = "none" /\ messages = NoMessages /\ inst = NoInst
    /\ history = <<>> /\ sessions = <<>> /\ opened_disk = <<>>
    /\ fresh = TRUE /\ nopens = 0 /\ nreadopens = 0 /\ nwrites = 0 /\ nreads = 0
    /\ probe_times = <<>> /\ warn_times = <<>> /\ write_calls_odd = FALSE
    /\ files = NoFiles /\ rw = NoRewrite

\* ~Bag() and Bag(): the object is destroyed, which closes it, and a new
\* one is constructed
Construct ==
    /\ ~fresh
    /\ Becomes(Constructed(close(Machine(0)).disk))
    /\ sessions' = IF file_isOpen THEN Ended("closed") ELSE sessions
    /\ fresh' = TRUE
    /\ open_ret' = "none" /\ messages' = NoMessages /\ inst' = NoInst
    /\ UNCHANGED <<envvars, history, opened_disk, nopens, nreadopens, nwrites, nreads>>
    /\ UNCHANGED <<logvars, rwvars>>

\* Bag::setCompression, called on the first Bag before it is opened
SetCompression(compression) ==
    /\ nopens = 0 /\ nreadopens = 0
    /\ compression # compression_
    /\ compression_' = compression
    /\ UNCHANGED <<mode_, version_, chunk_threshold_, file_header_pos_,
                   index_data_pos_, topic_count_, chunk_count_, chunk_open_,
                   curr_chunk_data_pos_, decompressed_chunk_, writing_enabled_,
                   check_disk_next_, warn_next_, topic_infos_, chunk_infos_,
                   topic_indexes_, curr_chunk_info_, curr_chunk_topic_indexes_,
                   decompress_buffer_, record_buffer_, file_isOpen, file_offset,
                   file_writeMode, file_compressedIn>>
    /\ UNCHANGED <<disk, envvars, seenvars, ghostvars, logvars, rwvars>>

\* Bag::setChunkThreshold, called on the first Bag before it is opened
SetChunkThreshold(chunk_threshold) ==
    /\ nopens = 0 /\ nreadopens = 0
    /\ chunk_threshold # chunk_threshold_
    /\ chunk_threshold_' = chunk_threshold
    /\ UNCHANGED <<mode_, version_, compression_, file_header_pos_,
                   index_data_pos_, topic_count_, chunk_count_, chunk_open_,
                   curr_chunk_data_pos_, decompressed_chunk_, writing_enabled_,
                   check_disk_next_, warn_next_, topic_infos_, chunk_infos_,
                   topic_indexes_, curr_chunk_info_, curr_chunk_topic_indexes_,
                   decompress_buffer_, record_buffer_, file_isOpen, file_offset,
                   file_writeMode, file_compressedIn>>
    /\ UNCHANGED <<disk, envvars, seenvars, ghostvars, logvars, rwvars>>

\* Bag::open(filename, mode) on a Bag that is not open
Open(mode, g) ==
    /\ ~file_isOpen
    /\ IF mode = "Read" THEN nreadopens < MaxReadOpens ELSE nopens < MaxOpens
    /\ LET opened(r) ==
               /\ Becomes(r.m)
               /\ open_ret' = IF r.ok THEN "true" ELSE "false"
               /\ sessions' = (IF mode = "Write" THEN <<>> ELSE sessions)
                      \o <<Session(mode, IF r.m.file_isOpen THEN "open" ELSE "failed",
                                   r.ok)>>
       IN  opened(open(Machine(g), mode))
    /\ history' = IF mode = "Write" THEN <<>> ELSE history
    /\ opened_disk' = disk
    /\ fresh' = FALSE
    /\ nopens' = IF mode = "Read" THEN nopens ELSE nopens + 1
    /\ nreadopens' = IF mode = "Read" THEN nreadopens + 1 ELSE nreadopens
    /\ messages' = NoMessages /\ inst' = NoInst
    /\ probe_times' = <<>> /\ warn_times' = <<>>
    /\ UNCHANGED write_calls_odd
    /\ UNCHANGED <<envvars, nwrites, nreads, rwvars>>

\* Bag::write(topic, time, msg) on a bag that open() opened for writing; the
\* payload of a message is its number in the file
Write(topic, time, type) ==
    /\ file_isOpen /\ mode_ \in WritableModes /\ open_ret = "true"
    /\ nwrites < MaxWrites
    /\ LET msg == [data |-> Len(history) + 1, type |-> type]
           written(m) ==
               /\ Becomes(m)
               /\ probe_times' = IF m.check_disk_next_ # check_disk_next_
                                 THEN Append(probe_times, wall_now) ELSE probe_times
               /\ warn_times' = IF m.warn_next_ # warn_next_
                                THEN Append(warn_times, wall_now) ELSE warn_times
       IN  /\ written(Bag_write(Machine(0), topic, time, msg))
           /\ history' = IF writing_enabled_
                         THEN Append(history, [topic |-> topic, time |-> time,
                                               data |-> msg.data, type |-> type])
                         ELSE history
    /\ sessions' = [sessions EXCEPT ![Len(sessions)].writes = @ + 1]
    /\ nwrites' = nwrites + 1
    /\ write_calls_odd' = ~write_calls_odd
    /\ UNCHANGED <<envvars, seenvars, opened_disk, fresh, nopens, nreadopens, nreads, rwvars>>

\* Bag::close() on an open bag
Close ==
    /\ file_isOpen
    /\ Becomes(close(Machine(0)))
    /\ sessions' = Ended("closed")
    /\ UNCHANGED <<envvars, seenvars, history, opened_disk, fresh, nopens, nreadopens, nwrites, nreads>>
    /\ UNCHANGED <<logvars, rwvars>>

\* The process dies between two calls with the bag open for writing: what was written to
\* the file stays, the object and what the compressor buffered are gone, and
\* a new process constructs a new Bag.
Crash ==
    /\ file_isOpen /\ mode_ \in WritableModes
    /\ Becomes(Constructed(disk))
    /\ sessions' = Ended("crashed")
    /\ fresh' = TRUE
    /\ open_ret' = "none" /\ messages' = NoMessages /\ inst' = NoInst
    /\ UNCHANGED <<envvars, history, opened_disk, nopens, nreadopens, nwrites, nreads>>
    /\ UNCHANGED <<logvars, rwvars>>

\* The process dies inside Bag::openAppend, after the truncation of line 138
\* and before the header is rewritten at line 143.
CrashInOpenAppend(mode, g) ==
    /\ ~file_isOpen /\ nopens < MaxOpens
    /\ mode \in {"Append", "ReadAppend"}
    /\ Len(disk) > 0
    /\ Becomes(Constructed(openAppendTruncate([Machine(g) EXCEPT !.mode_ = mode]).disk))
    /\ sessions' = Append(sessions, Session(mode, "crashed", FALSE))
    /\ opened_disk' = disk
    /\ fresh' = TRUE
    /\ nopens' = nopens + 1
    /\ open_ret' = "none" /\ messages' = NoMessages /\ inst' = NoInst
    /\ UNCHANGED <<envvars, history, nreadopens, nwrites, nreads>>
    /\ UNCHANGED <<logvars, rwvars>>

\* Bag::getMessagesByTopic(topics, start_time, end_time) on a bag open for
\* reading. The call that runs off the end of an index ends the process.
GetMessagesByTopic(topics, start_time, end_time) ==
    /\ file_isOpen /\ mode_ \in {"Read", "ReadAppend"} /\ open_ret = "true"
    /\ LET r == getMessagesByTopic(Machine(0), topics, start_time, end_time)
       IN  /\ messages' = [called |-> TRUE, topics |-> topics,
                           start_time |-> start_time, end_time |-> end_time,
                           crashed |-> r.crashed, out |-> r.messages]
           /\ IF r.crashed
              THEN /\ Becomes(Constructed(disk))
                   /\ sessions' = Ended("crashed")
                   /\ fresh' = TRUE /\ open_ret' = "none"
              ELSE UNCHANGED <<bagvars, disk, sessions, fresh, open_ret>>
    /\ inst' = NoInst
    /\ UNCHANGED <<envvars, history, opened_disk, nopens, nreadopens, nwrites, nreads>>
    /\ UNCHANGED <<logvars, rwvars>>

\* Bag::getMessages(start_time, end_time) on a bag open for reading
GetMessages(start_time, end_time) ==
    /\ file_isOpen /\ mode_ \in {"Read", "ReadAppend"} /\ open_ret = "true"
    /\ messages' = [called |-> TRUE, topics |-> Keys(topic_infos_),
                    start_time |-> start_time, end_time |-> end_time,
                    crashed |-> FALSE,
                    out |-> getMessages(Machine(0), start_time, end_time)]
    /\ inst' = NoInst
    /\ UNCHANGED <<bagvars, disk, envvars, open_ret, ghostvars, logvars, rwvars>>

\* MessageInfo::instantiate of the handle of the i-th index entry of topic:
\* Bag::readMessageDataRecord103(topic, entry.chunk_pos, entry.offset). A
\* failed assertion ends the process.
Instantiate(topic, i) ==
    /\ file_isOpen /\ mode_ \in {"Read", "ReadAppend"} /\ open_ret = "true"
    /\ topic \in DOMAIN topic_indexes_ /\ topic \in DOMAIN topic_infos_
    /\ i \in 1..Len(topic_indexes_[topic])
    /\ LET entry == topic_indexes_[topic][i]
           r == readMessageDataRecord103(Machine(0), topic, entry.chunk_pos,
                                         entry.offset)
       IN  /\ inst' = [called |-> TRUE, topic |-> topic, i |-> i, ret |-> r.ret]
           /\ IF r.ret = "abort"
              THEN /\ Becomes(Constructed(disk))
                   /\ sessions' = Ended("crashed")
                   /\ fresh' = TRUE /\ open_ret' = "none"
              ELSE /\ Becomes(r.m)
                   /\ sessions' = [sessions EXCEPT ![Len(sessions)].reads = @ + 1]
                   /\ UNCHANGED <<fresh, open_ret>>
    /\ messages' = NoMessages
    /\ nreads' = nreads + 1
    /\ UNCHANGED <<envvars, history, opened_disk, nopens, nreadopens, nwrites>>
    /\ UNCHANGED <<logvars, rwvars>>

Next ==
    \/ Construct
    \/ \E compression \in Compressions : SetCompression(compression)
    \/ \E chunk_threshold \in Thresholds : SetChunkThreshold(chunk_threshold)
    \/ \E mode \in Modes, g \in Garbage : Open(mode, g)
    \/ \E topic \in Topics, time \in Times, type \in Types : Write(topic, time, type)
    \/ Close
    \/ Crash
    \/ \E mode \in {"Append", "ReadAppend"}, g \in Garbage : CrashInOpenAppend(mode, g)
    \/ GetMessagesByTopic(TopicOrder, 1, MaxTime)
    \/ \E topic \in Topics, i \in 1..MaxWrites :
           nreads < MaxReads /\ Instantiate(topic, i)

Spec == Init /\ [][Next]_vars

\* ------------------------------------------------ what a reader of the file sees
\* the messages the handles of out stand for, instantiated one after the
\* other from the bag m: topic, time and the payload read (0 where the
\* read fails; a failed assertion ends the process and fails every later read)
RECURSIVE ReadAllFrom(_, _)
ReadAllFrom(m, out) ==
    IF out = <<>> THEN <<>>
    ELSE LET h == Head(out)
             tuple(r) == [topic |-> h.topic, time |-> h.time,
                          data |-> IF r.ret = "ok" THEN r.m.record_buffer_ ELSE 0]
             rest(r) == IF r.ret = "abort"
                        THEN [i \in 1..(Len(out) - 1) |->
                                 [topic |-> out[i + 1].topic, time |-> out[i + 1].time,
                                  data |-> 0]]
                        ELSE ReadAllFrom(r.m, Tail(out))
             both(r) == <<tuple(r)>> \o rest(r)
         IN  both(readMessageDataRecord103(m, h.topic, h.chunk_pos, h.offset))

\* the written messages as the tuples a reader is to get back
Tuples(written) ==
    [i \in 1..Len(written) |-> [topic |-> written[i].topic, time |-> written[i].time,
                                data |-> written[i].data]]

\* the messages of one topic, in their order
OfTopic(tuples, topic) == SelectSeq(tuples, LAMBDA t : t.topic = topic)

NonDecreasing(tuples) ==
    \A i \in 1..(Len(tuples) - 1) : tuples[i].time <= tuples[i + 1].time

\* payloads number the messages of a file, so equal lengths and equal sets
\* of tuples are equal multisets
SameMessages(read, written) ==
    /\ Len(read) = Len(written)
    /\ {read[i] : i \in 1..Len(read)} = {written[i] : i \in 1..Len(written)}

\* what the open Read-mode bag of the state returned to the full-range
\* getMessagesByTopic call, every handle instantiated
ReadInState == ReadAllFrom(Machine(0), messages.out)

\* a getMessagesByTopic call over every topic and time has returned to a
\* bag that is open for reading
Queried == file_isOpen /\ mode_ = "Read" /\ messages.called

\* the file of the state was written in one Write-mode session by a newly
\* constructed Bag, closed, and then opened in Read mode by a newly
\* constructed Bag
WrittenThenRead ==
    /\ Len(sessions) = 2
    /\ sessions[1].mode = "Write" /\ sessions[1].fresh
    /\ sessions[1].ended = "closed"
    /\ sessions[2].mode = "Read" /\ sessions[2].fresh

\* C1: Round-trip. A file written in Write mode and closed opens in Read
\* mode, and getMessagesByTopic over all topics and times yields exactly the
\* written messages, in non-decreasing time order, with equal payloads.
C1_RoundTrip ==
    WrittenThenRead =>
        /\ sessions[2].ok
        /\ Queried =>
               /\ ~messages.crashed
               /\ SameMessages(ReadInState, Tuples(history))
               /\ NonDecreasing(ReadInState)

\* write() of the messages of written, one after the other
RECURSIVE WriteAll(_, _)
WriteAll(m, written) ==
    IF written = <<>> THEN m
    ELSE WriteAll(Bag_write(m, Head(written).topic, Head(written).time,
                            [data |-> Head(written).data, type |-> Head(written).type]),
                  Tail(written))

\* the file a newly constructed Bag with the given chunk threshold and
\* compression leaves when it is opened in Write mode, writes the messages
\* and is closed
Written(written, chunk_threshold, compression) ==
    close(WriteAll(open([Constructed(<<>>) EXCEPT !.chunk_threshold_ = chunk_threshold,
                                                  !.compression_ = compression],
                        "Write").m,
                   written)).disk

\* what a newly constructed Bag reads from the file d: whether open(Read)
\* succeeds, whether the full-range getMessagesByTopic returns, and the
\* messages of the handles it returns
RoundTripOf(d) ==
    LET query(r, q) ==
            [opened |-> TRUE, crashed |-> q.crashed,
             read |-> IF q.crashed THEN <<>> ELSE ReadAllFrom(r.m, q.messages)]
        read(r) ==
            IF ~r.ok THEN [opened |-> FALSE, crashed |-> FALSE, read |-> <<>>]
            ELSE query(r, getMessagesByTopic(r.m, TopicOrder, 1, MaxTime))
    IN  read(open(Constructed(d), "Read"))

\* the same of the state: the Read-mode open of the last session and its
\* full-range query
RoundTripInState ==
    IF ~Queried THEN [opened |-> FALSE, crashed |-> FALSE, read |-> <<>>]
    ELSE [opened |-> TRUE, crashed |-> messages.crashed,
          read |-> IF messages.crashed THEN <<>> ELSE ReadInState]

\* C2: Chunk boundary independence. For every chunk threshold, the file
\* written and closed opens for Read and yields the same messages in the
\* same order as the same writes with the default threshold, which no
\* sequence of writes here reaches (one chunk).
C2_ChunkBoundaryIndependence ==
    WrittenThenRead =>
        LET one_chunk == RoundTripOf(Written(history, DefaultChunkThreshold,
                                             sessions[1].compression))
        IN  /\ sessions[2].ok = one_chunk.opened
            /\ Queried => RoundTripInState = one_chunk

\* C3: Compression neutrality. The messages read back through the index
\* and the random-access read are the same whether the file was written
\* with compression None, BZ2 or ZLIB.
C3_CompressionNeutrality ==
    WrittenThenRead =>
        LET uncompressed == RoundTripOf(Written(history, sessions[1].chunk_threshold,
                                                "None"))
        IN  /\ sessions[2].ok = uncompressed.opened
            /\ Queried => RoundTripInState = uncompressed

\* the file of the state was written in a Write-mode session, closed,
\* appended to in an Append-mode session, closed, and then opened in Read
\* mode, each time by a newly constructed Bag
WrittenAppendedThenRead ==
    /\ Len(sessions) = 3
    /\ sessions[1].mode = "Write" /\ sessions[1].fresh
    /\ sessions[1].ended = "closed"
    /\ sessions[2].mode = "Append" /\ sessions[2].fresh
    /\ sessions[2].ok /\ sessions[2].ended = "closed"
    /\ sessions[3].mode = "Read" /\ sessions[3].fresh

\* C4: Append correctness. After N1 messages written in Write mode, a
\* close, N2 more written in Append mode and a close, open(Read) succeeds
\* and yields all N1+N2 messages, each topic's messages in write order.
C4_AppendCorrectness ==
    WrittenAppendedThenRead =>
        /\ sessions[3].ok
        /\ Queried =>
               /\ ~messages.crashed
               /\ SameMessages(ReadInState, Tuples(history))
               /\ \A topic \in Topics :
                      OfTopic(ReadInState, topic) = OfTopic(Tuples(history), topic)

\* ------------------------------------------------------- the header in the file
\* the file d is a version 1.03 file: the version line and a FILE_HEADER
\* record after it
HasFileHeader(d) ==
    /\ Len(d) >= 2
    /\ d[1] = VersionLine
    /\ d[2].op = "FILE_HEADER"

\* the index_pos its FILE_HEADER carries
IndexPosOf(d) == d[2].index_pos

\* the last call of open, made on the file opened_disk in the given modes,
\* has returned and nothing was called on the bag since
JustOpened(modes) ==
    /\ sessions # <<>>
    /\ open_ret # "none"
    /\ sessions[Len(sessions)].mode \in modes
    /\ sessions[Len(sessions)].ended \in {"open", "failed"}
    /\ sessions[Len(sessions)].writes = 0
    /\ sessions[Len(sessions)].reads = 0
    /\ ~messages.called

\* C5: open(Read) of a version 1.03 file whose FILE_HEADER carries
\* index_pos = 0 fails, whatever topic_count and chunk_count it carries.
C5_OpenReadRejectsUnfinished ==
    (JustOpened({"Read"}) /\ HasFileHeader(opened_disk) /\ IndexPosOf(opened_disk) = 0)
        => open_ret = "false"

\* a newly constructed Bag cannot load the trailer of the file d
TrailerUnloadable(d) == ~open(Constructed(d), "Read").ok

\* C6: open(Append) and open(ReadAppend) of a file whose FILE_HEADER
\* carries index_pos = 0, or whose trailer cannot be loaded, return failure
\* and leave the file as it was.
C6_OpenAppendRejectsUnfinished ==
    (/\ JustOpened({"Append", "ReadAppend"})
     /\ HasFileHeader(opened_disk)
     /\ IndexPosOf(opened_disk) = 0 \/ TrailerUnloadable(opened_disk))
        => open_ret = "false" /\ disk = opened_disk

\* the process has just died with the file open in a writable mode (or
\* inside the open that was to open it so), in a session of a newly
\* constructed Bag
CrashedWhileWritable ==
    /\ sessions # <<>>
    /\ sessions[Len(sessions)].mode \in WritableModes
    /\ sessions[Len(sessions)].fresh
    /\ sessions[Len(sessions)].ended = "crashed"
    /\ ~file_isOpen

\* C7: A crash at any point between open in a writable mode and the final
\* header rewrite of close() leaves a file whose FILE_HEADER carries
\* index_pos = 0.
C7_CrashLeavesIndexPosZero ==
    (CrashedWhileWritable /\ Len(disk) >= 2 /\ disk[2].op = "FILE_HEADER")
        => IndexPosOf(disk) = 0

\* a file was opened in ReadAppend mode and closed at once, with no call
\* on the bag in between
ReopenedAndClosed ==
    /\ sessions # <<>>
    /\ sessions[Len(sessions)].mode = "ReadAppend"
    /\ sessions[Len(sessions)].ended = "closed"
    /\ sessions[Len(sessions)].writes = 0
    /\ sessions[Len(sessions)].reads = 0
    /\ ~messages.called
    /\ ~file_isOpen

\* the file d is finished and opens for Read
FinishedReadable(d) ==
    /\ HasFileHeader(d)
    /\ IndexPosOf(d) # 0
    /\ ~TrailerUnloadable(d)

\* the set of the messages of a sequence
MessageSet(tuples) == {tuples[i] : i \in 1..Len(tuples)}

Histories ==
    UNION {{[i \in 1..n |-> [topic |-> w[i][1], time |-> w[i][2], data |-> i,
                             type |-> 1]] : w \in [1..n -> Topics \X Times]}
               : n \in 0..MaxIdx}

\* the lists of topics a caller passes: any topics, in any order, a topic
\* any number of times
TopicLists == UNION {[1..n -> Topics] : n \in 1..MaxIdx}

\* the bounds of a time range: the times written, one before and one after
QueryTimes == 0..(MaxTime + 1)

\* A newly constructed Bag wrote the messages of some history in Write mode
\* with the default threshold and compression and was closed; a newly
\* constructed Bag has opened the file in Read mode.
InitMerge ==
    /\ wall_now = 0 /\ free_space = "plenty"
    /\ \E written \in Histories :
           /\ history = written
           /\ opened_disk = Written(written, DefaultChunkThreshold, NewBag.compression_)
           /\ LET loaded(r) == Is(r.m) /\ open_ret = IF r.ok THEN "true" ELSE "false"
              IN  loaded(open(Constructed(opened_disk), "Read"))
           /\ nwrites = Len(written)
    /\ sessions = <<[mode |-> "Write", fresh |-> TRUE,
                     compression |-> NewBag.compression_,
                     chunk_threshold |-> DefaultChunkThreshold, writes |-> nwrites,
                     reads |-> 0, ended |-> "closed", ok |-> TRUE],
                    [mode |-> "Read", fresh |-> TRUE,
                     compression |-> NewBag.compression_,
                     chunk_threshold |-> DefaultChunkThreshold, writes |-> 0,
                     reads |-> 0, ended |-> "open", ok |-> open_ret = "true"]>>
    /\ messages = NoMessages /\ inst = NoInst
    /\ fresh = FALSE /\ nopens = 1 /\ nreadopens = 0 /\ nreads = 0
    /\ probe_times = <<>> /\ warn_times = <<>> /\ write_calls_odd = FALSE
    /\ files = NoFiles /\ rw = NoRewrite

\* getMessagesByTopic with any list of topics and any time range, one call
\* for each open; the process that a query ended opens the file again
NextMerge ==
    \/ \E topics \in TopicLists, start_time \in QueryTimes, end_time \in QueryTimes :
           ~messages.called /\ GetMessagesByTopic(topics, start_time, end_time)
    \/ \E g \in Garbage : Open("Read", g)

SpecMerge == InitMerge /\ [][NextMerge]_vars

\* the index of every topic of the list is sorted non-decreasing by time
IndexesSorted(topics) ==
    \A i \in 1..Len(topics) :
        topics[i] \in DOMAIN topic_indexes_ => NonDecreasing(topic_indexes_[topics[i]])

\* a getMessagesByTopic call has returned to the bag of the state
Returned == file_isOpen /\ messages.called /\ ~messages.crashed

\* C9: Time-merge ordering. Whenever every requested topic's index is
\* sorted non-decreasing by time, the sequence getMessagesByTopic returns
\* is non-decreasing in time across all topics.
C9_TimeMergeOrdering ==
    (Returned /\ IndexesSorted(messages.topics)) => NonDecreasing(messages.out)

\* C9 is met: a query over sorted indexes has returned three messages of
\* two topics, the topics taking turns and the times rising
C9_Witness ==
    /\ Returned
    /\ IndexesSorted(messages.topics)
    /\ Len(messages.out) = 3
    /\ messages.out[1].topic # messages.out[2].topic
    /\ messages.out[2].topic # messages.out[3].topic
    /\ messages.out[1].time < messages.out[3].time

\* C10: getMessagesByTopic never produces the same handle twice: for every
\* list of topics, a list that names a topic more than once included, and
\* every time range, no index entry appears twice in the sequence returned.
C10_NoHandleTwice ==
    Returned =>
        \A i, j \in 1..Len(messages.out) :
            i # j => messages.out[i] # messages.out[j]

\* ------------------------------------------------- the order within a topic
\* the file of the state was written by sessions in writable modes, each of
\* a newly constructed Bag, each opened with success and closed, and is now
\* open in Read mode in a newly constructed Bag
WrittenAndClosedThenRead ==
    /\ Len(sessions) >= 2
    /\ \A i \in 1..Len(sessions) : sessions[i].fresh /\ sessions[i].ok
    /\ \A i \in 1..(Len(sessions) - 1) :
           sessions[i].mode \in WritableModes /\ sessions[i].ended = "closed"
    /\ sessions[Len(sessions)].mode = "Read"

\* the times of a sequence of messages or handles
TimesOf(seq) == [i \in 1..Len(seq) |-> seq[i].time]

\* every handle lies after the one before it in the file
RisingInFile(handles) ==
    \A i \in 1..(Len(handles) - 1) :
        \/ handles[i].chunk_pos < handles[i + 1].chunk_pos
        \/ /\ handles[i].chunk_pos = handles[i + 1].chunk_pos
           /\ handles[i].offset < handles[i + 1].offset

Waits == {WarnPeriod, CheckDiskPeriod, 3 * CheckDiskPeriod}

\* ros::WallTime::now() moves on between two calls
Tick(d) ==
    /\ wall_now + d <= MaxWall
    /\ wall_now' = wall_now + d
    /\ UNCHANGED <<bagvars, disk, free_space, seenvars, ghostvars, logvars, rwvars>>

\* the free space statvfs reports changes between two calls
FreeSpaceBecomes(f) ==
    /\ f # free_space
    /\ free_space' = f
    /\ UNCHANGED <<bagvars, disk, wall_now, seenvars, ghostvars, logvars, rwvars>>

\* A recorder: a Bag is opened for writing, messages of one topic are
\* written and the bag is closed, while the wall clock moves and the free
\* space of the disk changes.
NextDisk ==
    \/ \E mode \in {"Write", "Append"} : Open(mode, 0)
    \/ Write("a", 1, 1)
    \/ Close
    \/ \E d \in Waits : Tick(d)
    \/ \E f \in FreeSpaces : FreeSpaceBecomes(f)

SpecDisk == Init /\ [][NextDisk]_vars

\* Bag::write(topic, time, msg) of a recorder that never stops calling it:
\* as Write, but only the calls that put their message in the file count
\* in nwrites and in the session, so that the calls whose message is dropped
\* go on for ever
Record(topic, time, type) ==
    /\ file_isOpen /\ mode_ \in WritableModes /\ open_ret = "true"
    /\ writing_enabled_ => nwrites < MaxWrites
    /\ LET msg == [data |-> Len(history) + 1, type |-> type]
           written(m) ==
               /\ Becomes(m)
               /\ probe_times' = IF m.check_disk_next_ # check_disk_next_
                                 THEN Append(probe_times, wall_now) ELSE probe_times
               /\ warn_times' = IF m.warn_next_ # warn_next_
                                THEN Append(warn_times, wall_now) ELSE warn_times
       IN  /\ written(Bag_write(Machine(0), topic, time, msg))
           /\ history' = IF writing_enabled_
                         THEN Append(history, [topic |-> topic, time |-> time,
                                               data |-> msg.data, type |-> type])
                         ELSE history
    /\ sessions' = IF writing_enabled_
                   THEN [sessions EXCEPT ![Len(sessions)].writes = @ + 1]
                   ELSE sessions
    /\ nwrites' = IF writing_enabled_ THEN nwrites + 1 ELSE nwrites
    /\ write_calls_odd' = ~write_calls_odd
    /\ UNCHANGED <<envvars, seenvars, opened_disk, fresh, nopens, nreadopens, nreads, rwvars>>

\* One recording: the bag is opened in Write mode and is not closed; the
\* recorder calls write() again and again.
NextDiskLive ==
    \/ Open("Write", 0)
    \/ Record("a", 1, 1)
    \/ \E d \in Waits : Tick(d)
    \/ \E f \in FreeSpaces : FreeSpaceBecomes(f)

\* the step is a call of write(): of the steps of NextDiskLive, those of
\* Record change write_calls_odd, and no other does
WriteCalled ==
    /\ file_isOpen /\ mode_ \in WritableModes /\ open_ret = "true"
    /\ writing_enabled_ => nwrites < MaxWrites
    /\ write_calls_odd' = ~write_calls_odd

SpecDiskLive == Init /\ [][NextDiskLive]_vars /\ WF_write_calls_odd(WriteCalled)

\* writing is disabled, the disk has space again, a probe is due, and
\* write() can be called
ProbeDueWithSpace ==
    /\ file_isOpen /\ mode_ \in WritableModes /\ open_ret = "true"
    /\ ~writing_enabled_
    /\ free_space = "plenty"
    /\ wall_now >= check_disk_next_

\* C12: Once a probe has disabled writing and the free space has risen
\* again, the write() calls that follow run the probe again and writing is
\* enabled again (unless the space falls or the bag is closed before).
C12_WritingReenabled ==
    ProbeDueWithSpace ~> (writing_enabled_ \/ free_space # "plenty" \/ ~file_isOpen)

\* C13: On the write path the free-space probe runs at most once in 20
\* seconds of wall-clock time: two probes that write() runs are at least 20
\* seconds apart, also after an idle gap of several times 20 seconds.
C13_ProbePeriod ==
    \A i \in 1..(Len(probe_times) - 1) :
        probe_times[i + 1] - probe_times[i] >= CheckDiskPeriod

\* the members of the Bag and of its file without warn_next_
framevars == <<mode_, version_, compression_, chunk_threshold_,
             file_header_pos_, index_data_pos_, topic_count_,
             chunk_count_, chunk_open_, curr_chunk_data_pos_,
             decompressed_chunk_, writing_enabled_, check_disk_next_,
             topic_infos_, chunk_infos_, topic_indexes_,
             curr_chunk_info_, curr_chunk_topic_indexes_,
             decompress_buffer_, record_buffer_, file_isOpen,
             file_offset, file_writeMode, file_compressedIn>>

\* the step is a call of write() made while writing is disabled
DisabledWrite == nwrites' = nwrites + 1 /\ ~writing_enabled_

InitRead ==
    /\ wall_now = 0 /\ free_space = "plenty"
    /\ \E written \in Histories, chunk_threshold \in Thresholds,
          compression \in Compressions :
           /\ history = written
           /\ opened_disk = Written(written, chunk_threshold, compression)
           /\ LET loaded(r) == Is(r.m) /\ open_ret = IF r.ok THEN "true" ELSE "false"
              IN  loaded(open(Constructed(opened_disk), "Read"))
           /\ nwrites = Len(written)
           /\ sessions = <<[mode |-> "Write", fresh |-> TRUE,
                            compression |-> compression,
                            chunk_threshold |-> chunk_threshold, writes |-> nwrites,
                            reads |-> 0, ended |-> "closed", ok |-> TRUE],
                           [mode |-> "Read", fresh |-> TRUE,
                            compression |-> NewBag.compression_,
                            chunk_threshold |-> DefaultChunkThreshold, writes |-> 0,
                            reads |-> 0, ended |-> "open", ok |-> open_ret = "true"]>>
    /\ messages = NoMessages /\ inst = NoInst
    /\ fresh = FALSE /\ nopens = 1 /\ nreadopens = 0 /\ nreads = 0
    /\ probe_times = <<>> /\ warn_times = <<>> /\ write_calls_odd = FALSE
    /\ files = NoFiles /\ rw = NoRewrite

\* instantiate of the handles of any index entries, in any order, and
\* getMessages over any time range
NextRead ==
    \/ \E topic \in Topics, i \in 1..MaxIdx :
           nreads < MaxInst /\ Instantiate(topic, i)
    \/ \E start_time \in QueryTimes, end_time \in QueryTimes :
           GetMessages(start_time, end_time)

SpecRead == InitRead /\ [][NextRead]_vars

\* the last call on the bag was an instantiate, which has returned or has
\* ended the process on an assertion
Instantiated == inst.called /\ sessions[Len(sessions)].fresh

\* C15: Random access. For any index entry of a topic and any order of
\* instantiate calls, whichever chunk the one-chunk cache holds, the read
\* of the entry returns the payload that was written for that message.
C15_RandomAccess ==
    Instantiated =>
        /\ inst.ret = "ok"
        /\ record_buffer_ = OfTopic(history, inst.topic)[inst.i].data

\* ------------------------------------------------------- the trailer of a file
\* the last session of the file was opened in a writable mode with success
\* and has been closed
ClosedWritable ==
    /\ sessions # <<>>
    /\ sessions[Len(sessions)].mode \in WritableModes
    /\ sessions[Len(sessions)].ok
    /\ sessions[Len(sessions)].ended = "closed"
    /\ ~file_isOpen

\* the records of the file d before and from the position its header names
BodyOf(d) == SubSeq(d, 3, Min(IndexPosOf(d), Len(d)))
TrailerOf(d) == SubSeq(d, IndexPosOf(d) + 1, Len(d))

\* the elements of a sequence
Range(seq) == {seq[i] : i \in 1..Len(seq)}

\* the positions of the chunks of the file d
ChunkPositions(d) ==
    {pos \in 2..(Min(IndexPosOf(d), Len(d)) - 1) : d[pos + 1].op = "CHUNK"}

\* the topics of the messages in the chunks of the file d, stored raw or
\* compressed
ChunkTopics(d) ==
    {c.topic : c \in {c \in Range(BodyOf(d)) : c.op = "MSG_DATA"}}
    \cup UNION {{r.topic : r \in {r \in Range(c.recs) : r.op = "MSG_DATA"}}
                   : c \in {c \in Range(BodyOf(d)) : c.op = "BLOB"}}

\* the records of one kind in a sequence of records
OfOp(recs, op) == SelectSeq(recs, LAMBDA c : c.op = op)

\* C16: After close() of a writable bag the trailer holds exactly one
\* MSG_DEF record for each topic that appears in a chunk and exactly one
\* CHUNK_INFO record for each chunk, and the rewritten FILE_HEADER carries
\* these two numbers as topic_count and chunk_count.
C16_TrailerRecords ==
    ClosedWritable =>
        /\ HasFileHeader(disk)
        /\ LET defs == OfOp(TrailerOf(disk), "MSG_DEF")
               infos == OfOp(TrailerOf(disk), "CHUNK_INFO")
           IN  /\ {defs[i].topic : i \in 1..Len(defs)} = ChunkTopics(disk)
               /\ Len(defs) = Cardinality(ChunkTopics(disk))
               /\ {infos[i].chunk_pos : i \in 1..Len(infos)} = ChunkPositions(disk)
               /\ Len(infos) = Cardinality(ChunkPositions(disk))
               /\ disk[2].topic_count = Len(defs)
               /\ disk[2].chunk_count = Len(infos)

\* ------------------------------------------------------------ close, once
\* the file d holds, from the position its header at header_pos names, n
\* trailer records and nothing after them
Finalized(d, header_pos, n) ==
    /\ header_pos < Len(d)
    /\ d[header_pos + 1].op = "FILE_HEADER"
    /\ d[header_pos + 1].index_pos > 0
    /\ d[header_pos + 1].topic_count + d[header_pos + 1].chunk_count = n
    /\ LET index_pos == d[header_pos + 1].index_pos
       IN  \A i \in 1..n :
               /\ index_pos + i <= Len(d)
               /\ \/ index_pos + i = header_pos + 1
                  \/ d[index_pos + i].op \in {"MSG_DEF", "CHUNK_INFO"}

\* C17: close() finalizes the trailer exactly once. The first close() of a
\* bag that is open in a writable mode writes the trailer and the final
\* header; a later close() on the same object, the destructor's included,
\* writes nothing to the file; close() of a bag open in Read mode writes
\* nothing.
C17_CloseFinalizesOnce ==
    LET after(closed) ==
            /\ ~closed.file_isOpen
            /\ ~file_isOpen => closed.disk = disk
            /\ (file_isOpen /\ mode_ = "Read") => closed.disk = disk
            /\ (file_isOpen /\ mode_ \in WritableModes) =>
                   /\ closed.index_data_pos_ = closed.disk[file_header_pos_ + 1].index_pos
                   /\ Finalized(closed.disk, file_header_pos_,
                                Cardinality(DOMAIN topic_infos_) + Len(closed.chunk_infos_))
    IN  after(close(Machine(0)))

\* C17 is met: a bag that wrote two messages has been closed, the file is
\* finalized, and the object is still there to be closed again
C17_Witness ==
    /\ ClosedWritable /\ ~fresh
    /\ sessions[Len(sessions)].writes >= 2
    /\ Finalized(disk, file_header_pos_, Len(disk) - disk[file_header_pos_ + 1].index_pos)
    /\ Len(chunk_infos_) >= 1

\* ------------------------------------------------------------- the cheap scan
\* the handle of an index entry of a topic
HandleOf(topic, entry) ==
    [topic |-> topic, time |-> entry.time, chunk_pos |-> entry.chunk_pos,
     offset |-> entry.offset]

\* the positions, in rising order, of the entries of topic's index with a
\* time from start_time to end_time, both included
InRange(topic, start_time, end_time) ==
    {i \in 1..Len(topic_indexes_[topic]) :
         start_time <= topic_indexes_[topic][i].time
         /\ topic_indexes_[topic][i].time <= end_time}

\* C19: getMessages(startTime, endTime) returns exactly the index entries
\* of all known topics whose time t satisfies startTime <= t <= endTime,
\* each once, and within each topic in index order.
C19_GetMessagesRange ==
    Returned =>
        /\ \A i \in 1..Len(messages.out) :
               messages.out[i].topic \in DOMAIN topic_infos_ \cap DOMAIN topic_indexes_
        /\ \A topic \in DOMAIN topic_infos_ \cap DOMAIN topic_indexes_ :
               LET got == OfTopic(messages.out, topic)
                   want == InRange(topic, messages.start_time, messages.end_time)
               IN  /\ Len(got) = Cardinality(want)
                   /\ \A k \in 1..Len(got) :
                          \E i \in want :
                              /\ Cardinality({j \in want : j < i}) = k - 1
                              /\ got[k] = HandleOf(topic, topic_indexes_[topic][i])

\* C19 is met: getMessages has returned a handle of each of two topics
\* and has left out an entry one past the end of the range
C19_Witness ==
    /\ Returned
    /\ Len(OfTopic(messages.out, "a")) = 1
    /\ Len(OfTopic(messages.out, "b")) = 1
    /\ \E topic \in DOMAIN topic_indexes_ :
           \E i \in 1..Len(topic_indexes_[topic]) :
               topic_indexes_[topic][i].time = messages.end_time + 1

\* ----------------------------------------------------- the size of the header
\* the bytes a record takes in the file: u32 header_len, the header, u32
\* data_len, the data section
RecordBytes(cell) == 4 + cell.header_len + 4 + cell.data_len

InBag(d) == NewBag @@ [disk |-> d, wall_now |-> wall_now,
                       free_space |-> free_space, garbage_ |-> 0]

\* Bag::rewrite, lines 152-161: in.open(src_filename, Read), the choice of
\* target_filename, and open(target_filename, Write), which creates the
\* target or empties it
RewriteOpen(src_filename, dest_filename) ==
    /\ rw.pc = "idle" /\ ~file_isOpen
    /\ files[src_filename].exists
    /\ LET target_filename == IF dest_filename = src_filename
                              THEN dest_filename \o ".active" ELSE dest_filename
           call == [rw EXCEPT !.src_filename = src_filename,
                              !.dest_filename = dest_filename,
                              !.dest_before = files[dest_filename]]
           opened(in, out) ==
               IF ~in.ok
               THEN /\ rw' = [call EXCEPT !.pc = "done", !.ret = "false"]
                    /\ UNCHANGED <<bagvars, disk, files>>
               ELSE /\ Becomes(out.m)
                    /\ files' = [files EXCEPT ![target_filename] = File(out.m.disk)]
                    /\ rw' = [call EXCEPT !.pc = "writing",
                                          !.target_filename = target_filename,
                                          !.in = in.m,
                                          !.todo = getMessages(in.m, 0, MaxTime + 1)]
       IN  opened(open(InBag(files[src_filename].disk), "Read"),
                  open([Machine(0) EXCEPT !.disk = files[target_filename].disk], "Write"))
    /\ UNCHANGED <<envvars, seenvars, ghostvars, logvars>>

\* Bag::rewrite, lines 163-167: the next message of in.getMessages() is
\* instantiated and written. A read that fails leaves no instance to
\* write, and the process dies.
RewriteMessage ==
    /\ rw.pc = "writing" /\ rw.todo # <<>>
    /\ LET m == Head(rw.todo)
           copied(instance) ==
               IF instance.ret # "ok"
               THEN /\ Becomes(Constructed(disk))
                    /\ rw' = [rw EXCEPT !.pc = "crashed", !.todo = <<>>]
                    /\ UNCHANGED files
               ELSE LET written(out) ==
                            /\ Becomes(out)
                            /\ files' = [files EXCEPT ![rw.target_filename] = File(out.disk)]
                    IN  /\ written(Bag_write(Machine(0), m.topic, m.time,
                                             [data |-> instance.m.record_buffer_,
                                              type |-> rw.in.topic_infos_[m.topic].datatype]))
                        /\ rw' = [rw EXCEPT !.in = instance.m, !.todo = Tail(rw.todo)]
       IN  copied(readMessageDataRecord103(rw.in, m.topic, m.chunk_pos, m.offset))
    /\ UNCHANGED <<envvars, seenvars, ghostvars, logvars>>

\* Bag::rewrite, lines 169-170: in.close() and close()
RewriteClose ==
    /\ rw.pc = "writing" /\ rw.todo = <<>>
    /\ LET closed(out) ==
               /\ Becomes(out)
               /\ files' = [files EXCEPT ![rw.target_filename] = File(out.disk)]
       IN  closed(close(Machine(0)))
    /\ rw' = [rw EXCEPT !.pc = "closed", !.in = close(rw.in)]
    /\ UNCHANGED <<envvars, seenvars, ghostvars, logvars>>

\* Bag::rewrite, lines 172-175: rename(target_filename, dest_filename) if
\* the two differ, and return true
RewriteRename ==
    /\ rw.pc = "closed"
    /\ files' = IF rw.target_filename # rw.dest_filename
                THEN [files EXCEPT ![rw.dest_filename] = files[rw.target_filename],
                                   ![rw.target_filename] = NoFile]
                ELSE files
    /\ rw' = [rw EXCEPT !.pc = "done", !.ret = "true"]
    /\ UNCHANGED <<bagvars, disk, envvars, seenvars, ghostvars, logvars>>

\* A newly constructed Bag in a directory with a file "x", written by a
\* newly constructed Bag with some chunk threshold and closed, and with or
\* without a finished file "y".
InitRewrite ==
    /\ Is(NewBag @@ [disk |-> <<>>])
    /\ wall_now = 0 /\ free_space = "plenty"
    /\ open_ret = "none" /\ messages = NoMessages /\ inst = NoInst
    /\ \E written \in Histories, chunk_threshold \in Thresholds, other \in BOOLEAN :
           /\ history = written
           /\ files = [NoFiles EXCEPT
                         !["x"] = File(Written(written, chunk_threshold,
                                               NewBag.compression_)),
                         !["y"] = IF other
                                  THEN File(Written(<<>>, chunk_threshold,
                                                    NewBag.compression_))
                                  ELSE NoFile]
    /\ sessions = <<>> /\ opened_disk = <<>>
    /\ fresh = TRUE /\ nopens = 0 /\ nreadopens = 0 /\ nwrites = 0 /\ nreads = 0
    /\ probe_times = <<>> /\ warn_times = <<>> /\ write_calls_odd = FALSE
    /\ rw = NoRewrite

NextRewrite ==
    \/ \E dest_filename \in Names : RewriteOpen("x", dest_filename)
    \/ RewriteMessage
    \/ RewriteClose
    \/ RewriteRename

SpecRewrite == InitRewrite /\ [][NextRewrite]_vars

\* rewrite() is between its open of the target and its rename
RewriteUnderWay == rw.pc \in {"writing", "closed"}

\* C18: rewrite(src, dst) is transactional at the rename step. All message
\* writes go to the file <dst>.active, and the path dst is created or
\* replaced only by the final rename, after every message is written and
\* the output closed: until then dst is as it was before the call.
C18_RewriteTransactional ==
    RewriteUnderWay =>
        /\ rw.target_filename = rw.dest_filename \o ".active"
        /\ files[rw.dest_filename] = rw.dest_before

\* ------------------------------------------------- the writer's bookkeeping
\* the datatypes (with their md5sum and definition) of the messages written
TypesWritten == 1..MaxTypeWritten

\* A recorder and its file: the Bag is configured, opened in a mode that
\* writes, written to (a topic may come with another datatype than before)
\* and closed; the object is opened again, or a new one is constructed.
NextWriter ==
    \/ Construct
    \/ \E compression \in Compressions : SetCompression(compression)
    \/ \E chunk_threshold \in Thresholds : SetChunkThreshold(chunk_threshold)
    \/ \E mode \in WritableModes : Open(mode, 0)
    \/ \E topic \in Topics, time \in Times, type \in TypesWritten : Write(topic, time, type)
    \/ Close

SpecWriter == Init /\ [][NextWriter]_vars

\* the bag is open for writing
Writing == file_isOpen /\ mode_ \in WritableModes /\ open_ret = "true"

\* the records of the uncompressed data of the chunk whose CHUNK record is
\* at position pos of the file d
ChunkDataAt(d, pos) ==
    IF pos + 1 > Len(d) THEN <<>>
    ELSE IF d[pos + 1].op # "CHUNK" THEN <<>>
    ELSE IF d[pos + 1].compression = "None"
    THEN SubSeq(d, pos + 2, Min(pos + 1 + d[pos + 1].size, Len(d)))
    ELSE IF pos + 2 <= Len(d) /\ d[pos + 2].op = "BLOB" THEN d[pos + 2].recs
    ELSE <<>>

\* the number of INDEX_DATA records that follow the data of the chunk at pos
IndexRecordsAfter(d, pos) ==
    LET first == pos + 2 + d[pos + 1].compressed_size
        runs == {n \in 0..Len(d) :
                    \A k \in 0..(n - 1) :
                        first + k <= Len(d) /\ d[first + k].op = "INDEX_DATA"}
    IN  Cardinality(runs) - 1

\* C21: For every chunk in chunk_infos_ of a bag open for writing,
\* topic_counts holds exactly the topics with a message in that chunk, each
\* with the number of its messages in that chunk, and as many INDEX_DATA
\* records follow the chunk as topic_counts has topics: no count carries
\* over from an earlier chunk.
C21_TopicCountsPerChunk ==
    Writing =>
        \A i \in 1..Len(chunk_infos_) :
            LET chunk_info == chunk_infos_[i]
                written == OfOp(ChunkDataAt(disk, chunk_info.pos), "MSG_DATA")
            IN  /\ DOMAIN chunk_info.topic_counts
                       = {written[j].topic : j \in 1..Len(written)}
                /\ \A topic \in DOMAIN chunk_info.topic_counts :
                       chunk_info.topic_counts[topic]
                           = Len(OfTopic(written, topic))
                /\ IndexRecordsAfter(disk, chunk_info.pos)
                       = Cardinality(DOMAIN chunk_info.topic_counts)


\* ------------------------------------------------ where an index entry points
\* the record at offset of the records recs
RecordAt(recs, offset) ==
    IF offset >= 0 /\ offset < Len(recs) THEN recs[offset + 1] ELSE [op |-> "EOF"]

\* the offset of the first record of recs, from offset on, that is no MSG_DEF
RECURSIVE SkipDefs(_, _)
SkipDefs(recs, offset) ==
    IF RecordAt(recs, offset).op = "MSG_DEF" THEN SkipDefs(recs, offset + 1)
    ELSE offset

\* the record is the MSG_DATA record of a message of topic at time
IsMessage(rec, topic, time) ==
    /\ rec.op = "MSG_DATA"
    /\ rec.topic = topic
    /\ rec.time = time

\* the index entries the writer holds for a topic whose chunk is closed
StoredEntries ==
    UNION {{[topic |-> topic, entry |-> topic_indexes_[topic][i]] :
               i \in 1..Len(topic_indexes_[topic])} :
           topic \in DOMAIN topic_indexes_}

\* C22: For every index entry e the writer holds under a topic there is
\* a ChunkInfo in chunk_infos_ at e.chunk_pos, and the record at e.offset of
\* that chunk's uncompressed data is a MSG_DATA record of the topic with
\* the time of e, for the first message of a topic too.
C22_EntryAtMessage ==
    Writing =>
        \A s \in StoredEntries :
            /\ \E i \in 1..Len(chunk_infos_) : chunk_infos_[i].pos = s.entry.chunk_pos
            /\ IsMessage(RecordAt(ChunkDataAt(disk, s.entry.chunk_pos), s.entry.offset),
                         s.topic, s.entry.time)

\* The first record from e.offset on that is no MSG_DEF record is the
\* MSG_DATA record of the topic with the time of e: what the reader relies
\* on (readMessageDataRecord103 skips the MSG_DEF records), and what the
\* entries of a newly constructed Bag satisfy.
EntryAtMessageAfterDefs ==
    (Writing /\ sessions[Len(sessions)].fresh) =>
        \A s \in StoredEntries :
            /\ \E i \in 1..Len(chunk_infos_) : chunk_infos_[i].pos = s.entry.chunk_pos
            /\ LET recs == ChunkDataAt(disk, s.entry.chunk_pos)
               IN  IsMessage(RecordAt(recs, SkipDefs(recs, s.entry.offset)),
                             s.topic, s.entry.time)

\* ---------------------------------------------------- the index in memory
\* the entries the writer holds for topic: those of the closed chunks and,
\* after them, those of the chunk that is open
IndexOf(topic) ==
    (IF topic \in DOMAIN topic_indexes_ THEN topic_indexes_[topic] ELSE <<>>)
    \o (IF topic \in DOMAIN curr_chunk_topic_indexes_
        THEN curr_chunk_topic_indexes_[topic] ELSE <<>>)

\* the step is a call of write() that puts its message in the file
AcceptedWrite == Writing /\ Len(history') = Len(history) + 1

\* the step is the close() of a bag open for writing, the object kept
ClosingWrite == Writing /\ ~file_isOpen' /\ ~fresh'

\* C23: In a write session the entries of each topic, those of the closed
\* chunks followed by those of the open chunk, are in order the accepted
\* write() calls on the topic, after the entries loaded from the file in
\* Append mode: in Write mode they are the messages written since the
\* file was created; a write() adds one entry with its time at the end of
\* its topic's entries and leaves every other entry as it was; and closing
\* a chunk, in write() or in close(), moves the pending entries without
\* reordering, dropping or duplicating any.
C23_IndexConservation ==
    /\ [](Writing /\ mode_ = "Write" =>
            \A topic \in Topics :
                TimesOf(IndexOf(topic)) = TimesOf(OfTopic(history, topic)))
    /\ [][/\ AcceptedWrite =>
                \A topic \in Topics :
                    IF topic = history'[Len(history')].topic
                    THEN /\ Len(IndexOf(topic)') = Len(IndexOf(topic)) + 1
                         /\ SubSeq(IndexOf(topic)', 1, Len(IndexOf(topic))) = IndexOf(topic)
                         /\ IndexOf(topic)'[Len(IndexOf(topic)')].time
                                = history'[Len(history')].time
                    ELSE IndexOf(topic)' = IndexOf(topic)
          /\ ClosingWrite =>
                \A topic \in Topics : IndexOf(topic)' = IndexOf(topic)]_vars

\* ------------------------------------------------- the TopicInfo of a topic
\* the records of the cells of a file, those of a compressed chunk in the
\* place of its blob
RECURSIVE Flatten(_)
Flatten(d) ==
    IF d = <<>> THEN <<>>
    ELSE (IF Head(d).op = "BLOB" THEN Head(d).recs ELSE <<Head(d)>>)
         \o Flatten(Tail(d))

\* the MSG_DEF and MSG_DATA records of topic that the writer has put into
\* the chunks of the file, those still in the compressor included, in order
StreamOf(topic) ==
    SelectSeq(Flatten(disk) \o file_compressedIn,
              LAMBDA c : c.op \in {"MSG_DEF", "MSG_DATA"} /\ c.topic = topic)

\* the step is a call of write()
WriteStep == Writing /\ nwrites' = nwrites + 1

\* C24: A TopicInfo is immutable after the first write of its topic: a
\* write() leaves every TopicInfo stored before it as it was, also when it
\* brings another datatype, md5sum or definition; and of the records of a
\* topic in the chunks of the file none but the first is a MSG_DEF record,
\* also for a topic loaded from the trailer by open(Append).
C24_TopicInfoImmutable ==
    /\ [](Writing =>
            \A topic \in Topics :
                \A i \in 1..Len(StreamOf(topic)) :
                    StreamOf(topic)[i].op = "MSG_DEF" => i = 1)
    /\ [][WriteStep =>
              \A topic \in DOMAIN topic_infos_ :
                  topic_infos_'[topic] = topic_infos_[topic]]_vars

\* C24 at work: in an Append session a message has been written on a topic
\* loaded from the trailer, with another datatype than the topic's first
C24_Witness ==
    /\ Writing /\ mode_ = "Append"
    /\ sessions[Len(sessions)].writes >= 1
    /\ Len(history) >= 2
    /\ history[Len(history)].topic = history[1].topic
    /\ history[Len(history)].type # history[1].type
    /\ Len(history) - sessions[Len(sessions)].writes >= 1

\* ------------------------------------------------------ the size of a chunk
\* Bag::getChunkOffset of the bag as it is
ChunkOffset ==
    IF compression_ = "None" THEN U32(file_offset - curr_chunk_data_pos_)
    ELSE Len(file_compressedIn)

\* the uncompressed size of the chunk closed last, as its CHUNK record has it
LastChunkSize == disk[chunk_infos_[Len(chunk_infos_)].pos + 1].size

\* C25: After every write() either no chunk is open or the uncompressed
\* size of the open chunk is at most chunk_threshold_: the write that
\* makes the size exceed the threshold closes the chunk, and a write that
\* closes a chunk has made its size exceed the threshold.
C25_ChunkThreshold ==
    [][(WriteStep /\ Len(history') = Len(history) + 1) =>
          /\ chunk_open_' => ChunkOffset' <= chunk_threshold_
          /\ ~chunk_open_' =>
                /\ Len(chunk_infos_') = Len(chunk_infos_) + 1
                /\ LastChunkSize' > chunk_threshold_]_vars

\* C25 at work: after a chunk was closed a write has left the open chunk
\* with a size of exactly the threshold
C25_Witness ==
    /\ Writing /\ chunk_open_
    /\ Len(chunk_infos_) >= 1
    /\ sessions[Len(sessions)].writes >= 2
    /\ ChunkOffset = chunk_threshold_

\* ----------------------------------------------------- the times of a chunk
\* the step closes a chunk: write() or close() appends a ChunkInfo
ChunkClosed == Writing /\ Len(chunk_infos_') = Len(chunk_infos_) + 1

\* the number of index entries pending for the open chunk: the messages
\* written into it so far
RECURSIVE PendingFrom(_)
PendingFrom(topics) ==
    IF topics = <<>> THEN 0
    ELSE Len(curr_chunk_topic_indexes_[Head(topics)]) + PendingFrom(Tail(topics))

Pending == PendingFrom(Keys(curr_chunk_topic_indexes_))

\* the last n messages of those accepted
LastWritten(written, n) == SubSeq(written, Len(written) - n + 1, Len(written))

\* C26: Every ChunkInfo the writer appends to chunk_infos_ has start_time
\* <= end_time, its start_time is the time of the message whose write
\* opened the chunk (the first in the chunk), and its end_time is the
\* greatest time of the messages written into the chunk.
C26_ChunkTimes ==
    [][ChunkClosed =>
          LET chunk_info == chunk_infos_'[Len(chunk_infos_')]
              written == LastWritten(history', Pending + Len(history') - Len(history))
          IN  /\ Len(written) >= 1
              /\ chunk_info.start_time <= chunk_info.end_time
              /\ chunk_info.start_time = written[1].time
              /\ \A j \in 1..Len(written) : written[j].time <= chunk_info.end_time
              /\ \E j \in 1..Len(written) : written[j].time = chunk_info.end_time]_vars

\* C26 at work: a chunk of three messages is closed whose greatest time
\* is neither that of its first nor that of its last message
C26_Witness ==
    /\ chunk_infos_ # <<>>
    /\ LET chunk_info == chunk_infos_[Len(chunk_infos_)]
           written == OfOp(ChunkDataAt(disk, chunk_info.pos), "MSG_DATA")
       IN  /\ Len(written) = 3
           /\ written[1].time < written[2].time
           /\ written[3].time < written[2].time
           /\ chunk_info.start_time = written[1].time
           /\ chunk_info.end_time = written[2].time

\* --------------------------------------------------- the one-chunk cache
\* the step is a random-access read that returns
ReadStep == nreads' = nreads + 1 /\ inst'.ret # "abort"

\* C27: A random-access read of an entry whose chunk_pos is
\* decompressed_chunk_ reads nothing from the file and decompresses
\* nothing; a read of an entry of another chunk that is compressed
\* decompresses that chunk and sets decompressed_chunk_ to its position (so
\* reading the entries in chunk order decompresses every compressed chunk
\* once).
C27_OneChunkCache ==
    [][ReadStep =>
          LET entry == topic_indexes_[inst'.topic][inst'.i]
          IN  IF entry.chunk_pos = decompressed_chunk_
              THEN UNCHANGED <<file_offset, decompress_buffer_, decompressed_chunk_>>
              ELSE disk[entry.chunk_pos + 1].compression # "None" =>
                       /\ decompressed_chunk_' = entry.chunk_pos
                       /\ decompress_buffer_' = disk[entry.chunk_pos + 2].recs]_vars

\* ------------------------------------------------------ back-patched headers
\* Bag::setCompression, called on a bag that is open for writing
SetCompressionWriting(compression) ==
    /\ file_isOpen /\ mode_ \in WritableModes /\ open_ret = "true"
    /\ compression # compression_
    /\ compression_' = compression
    /\ UNCHANGED <<mode_, version_, chunk_threshold_, file_header_pos_,
                   index_data_pos_, topic_count_, chunk_count_, chunk_open_,
                   curr_chunk_data_pos_, decompressed_chunk_, writing_enabled_,
                   check_disk_next_, warn_next_, topic_infos_, chunk_infos_,
                   topic_indexes_, curr_chunk_info_, curr_chunk_topic_indexes_,
                   decompress_buffer_, record_buffer_, file_isOpen, file_offset,
                   file_writeMode, file_compressedIn>>
    /\ UNCHANGED <<disk, envvars, seenvars, ghostvars, logvars, rwvars>>

\* A recorder that sets the compression also while the bag is open: the Bag
\* is opened in Write or Append mode, written to and closed, and opened
\* again.
NextPatch ==
    \/ \E chunk_threshold \in Thresholds : SetChunkThreshold(chunk_threshold)
    \/ \E compression \in Compressions : SetCompressionWriting(compression)
    \/ \E mode \in {"Write", "Append"} : Open(mode, 0)
    \/ \E topic \in Topics, time \in Times : Write(topic, time, 1)
    \/ Close

SpecPatch == Init /\ [][NextPatch]_vars

\* rosbag/constants.h is not among the sources: spec 3, the compression
\* strings of the CHUNK header
CompressionString(compression) ==
    CASE compression = "None" -> "none"
      [] compression = "BZ2" -> "bz2"
      [] compression = "ZLIB" -> "zlib"

\* Bag::writeChunkHeader, lines 584-589: the length of the header of op (a
\* uint8_t), compression (its string) and size (a uint32_t)
ChunkHeaderLen(compression) ==
    FieldLen("op", 1) + FieldLen("compression", Len(CompressionString(compression)))
    + FieldLen("size", 4)

\* the bytes a header record takes in the file before the data of its
\* chunk (CHUNK: header_len, header, data_len) or with its padding
\* (FILE_HEADER)
HeaderBytes(cell) ==
    IF cell.op = "FILE_HEADER" THEN RecordBytes(cell)
    ELSE 4 + ChunkHeaderLen(cell.compression) + 4

\* a FILE_HEADER or CHUNK record is at position pos of the file, and the
\* step writes another record of its kind in its place
HeaderRewritten(pos) ==
    /\ pos < Len(disk) /\ pos < Len(disk')
    /\ disk[pos + 1].op \in {"FILE_HEADER", "CHUNK"}
    /\ disk'[pos + 1].op = disk[pos + 1].op
    /\ disk'[pos + 1] # disk[pos + 1]

\* C28: Every rewrite of the FILE_HEADER record and every rewrite of a
\* CHUNK header at chunk close writes exactly as many bytes as the
\* placeholder in its place, so that it overwrites no byte after it.
C28_HeaderRewriteSameSize ==
    [][\A pos \in 0..Len(disk) :
           HeaderRewritten(pos) => HeaderBytes(disk'[pos + 1]) = HeaderBytes(disk[pos + 1])]_vars

\* ---------------------------------------------------- a failed read in open
\* Bag::startReadingVersion103, lines 296-310, from the i-th chunk on: some
\* readChunkHeader returns false before a readTopicIndexRecord stops the loop
RECURSIVE ChunkHeaderReadFails(_, _)
ChunkHeaderReadFails(m, i) ==
    IF i > Len(m.chunk_infos_) THEN FALSE
    ELSE LET chunk_info == m.chunk_infos_[i]
             indexes(ch) ==
                 readTopicIndexRecords(
                     seekCur(ch.m, ch.chunk_header.compressed_size),
                     Cardinality(DOMAIN chunk_info.topic_counts))
             next(ch, r) == ~ch.ok \/ (r.ok /\ ChunkHeaderReadFails(r.m, i + 1))
             then(ch) == next(ch, indexes(ch))
         IN  then(readChunkHeader(
                 seek([m EXCEPT !.curr_chunk_info_ = chunk_info], chunk_info.pos)))

\* some record read of startReadingVersion103(m) returns false
RecordReadFails(m) ==
    LET chunks(infos) ==
            \/ ~infos.ok
            \/ ChunkHeaderReadFails(infos.m, 1)
            \/ ~readChunkIndexes(infos.m, 1).ok
        infos(defs) ==
            ~defs.ok \/ chunks(readChunkInfoRecords(defs.m, defs.m.chunk_count_))
        defs(fh) ==
            \/ ~fh.ok
            \/ infos(readMessageDefinitionRecords(
                         seek(fh.m, fh.m.index_data_pos_), fh.m.topic_count_))
    IN  defs(readFileHeaderRecord(m))

\* the machine at the call of startReadingVersion103 in open(Read), with g
\* what an uninitialised read yields
AtStartReading(g) == readVersion(file_openRead([Machine(g) EXCEPT !.mode_ = "Read"]))

\* open(Read) is called on a file with a version 1.03 line, and returns
OpenReadReturns(g) ==
    /\ ~file_isOpen /\ Len(disk) > 0
    /\ nreadopens' = nreadopens + 1
    /\ AtStartReading(g).version_ = 103
    /\ Becomes(open(Machine(g), "Read").m)

\* a record whose op is not the one its place in the file calls for
WrongOp(cell) == [cell EXCEPT !.op = "MSG_DATA"]

\* the records of the trailer and of the chunk indexes, and the chunk headers
LoadedOps == {"MSG_DEF", "CHUNK_INFO", "CHUNK", "INDEX_DATA"}

\* the files that differ from d in one record read by open(Read), which has
\* another op or a header that does not parse
Damaged(d) ==
    UNION {{[d EXCEPT ![pos] = WrongOp(d[pos])], [d EXCEPT ![pos] = [op |-> "ZERO"]]} :
               pos \in {p \in 1..Len(d) : d[p].op \in LoadedOps}}

\* A newly constructed Bag wrote the messages of some history in Write mode
\* and was closed; one record of the file was damaged; a new Bag is
\* constructed beside the file.
InitDamaged ==
    /\ wall_now = 0 /\ free_space = "plenty"
    /\ \E written \in Histories, chunk_threshold \in Thresholds,
          compression \in Compressions :
           /\ history = written
           /\ \E d \in Damaged(Written(written, chunk_threshold, compression)) :
                  Is(Constructed(d))
           /\ nwrites = Len(written)
           /\ sessions = <<[mode |-> "Write", fresh |-> TRUE,
                            compression |-> compression,
                            chunk_threshold |-> chunk_threshold, writes |-> nwrites,
                            reads |-> 0, ended |-> "closed", ok |-> TRUE]>>
    /\ open_ret = "none" /\ messages = NoMessages /\ inst = NoInst
    /\ opened_disk = <<>>
    /\ fresh = TRUE /\ nopens = 1 /\ nreadopens = 0 /\ nreads = 0
    /\ probe_times = <<>> /\ warn_times = <<>> /\ write_calls_odd = FALSE
    /\ files = NoFiles /\ rw = NoRewrite

NextDamaged ==
    \/ \E g \in Garbage : Open("Read", g)
    \/ Close
    \/ Construct

SpecDamaged == InitDamaged /\ [][NextDamaged]_vars

\* C29: when a record read fails while open(Read) loads the trailer and the
\* indexes of the chunks of a version 1.03 file, open does not return true.
C29_FailedReadFailsOpen ==
    [][\A g \in Garbage :
           (OpenReadReturns(g) /\ RecordReadFails(AtStartReading(g)))
               => open_ret' # "true"]_vars

\* ------------------------------------------------ what is written under a lock
\* boost::mutex::scoped_lock lock(record_mutex_) is the first statement of
\* writeFileHeaderRecord (line 358), writeTopicIndexRecords (688),
\* writeMessageDefinitionRecords (797) and writeChunkInfoRecords (993): the
\* mutex is held from the call to the return. topic_infos_mutex_ (442-460)
\* and check_disk_mutex_ (610-616) are held over no write to the file.

\* the records written to the uncompressed file between two machine values
RecordsWritten(before, after) == after.file_offset - before.file_offset

\* Bag::stopWritingChunk, lines 541-561: the machine at the call of
\* writeTopicIndexRecords
AtTopicIndexRecords(m) ==
    LET m1 == [m EXCEPT !.chunk_infos_ = Append(m.chunk_infos_, m.curr_chunk_info_),
                        !.topic_indexes_ = MergeChunkIndexes(m.topic_indexes_,
                                                m.curr_chunk_topic_indexes_)]
        m2 == file_setWriteMode(m1, "None")
        compressed_size == U32(m2.file_offset - m2.curr_chunk_data_pos_)
        end_of_chunk_pos == m2.file_offset
        m3 == writeChunkHeader(seek(m2, m2.curr_chunk_info_.pos),
                               m2.compression_, compressed_size, getChunkOffset(m1))
    IN  seek(m3, end_of_chunk_pos)

\* Bag::stopWritingVersion103 called on m: the holds of record_mutex_ in the
\* order they are taken, each with the function that takes the lock and the
\* number of records written to the file before it is released
LockHolds(m) ==
    LET hold(name, before, after) ==
            [in |-> name, records |-> RecordsWritten(before, after)]
        m1 == IF m.chunk_open_ THEN stopWritingChunk(m) ELSE m
        m2 == [m1 EXCEPT !.index_data_pos_ = m1.file_offset]
        m3 == writeMessageDefinitionRecords(m2)
        m4 == writeChunkInfoRecords(m3)
        m5 == seek(m4, m4.file_header_pos_)
    IN  (IF m.chunk_open_
         THEN <<hold("writeTopicIndexRecords", AtTopicIndexRecords(m),
                     writeTopicIndexRecords(AtTopicIndexRecords(m)))>>
         ELSE <<>>)
        \o <<hold("writeMessageDefinitionRecords", m2, m3),
             hold("writeChunkInfoRecords", m3, m4),
             hold("writeFileHeaderRecord", m5, writeFileHeaderRecord(m5))>>

\* close() runs on a bag open for writing
ClosingStep == Writing /\ ~file_isOpen' /\ disk' = close(Machine(0)).disk

\* C30: no operation writes two or more records to the file while it holds
\* one of the mutexes without a break: in close(), every hold of
\* record_mutex_ covers the write of at most one record.
C30_OneRecordPerLock ==
    [][ClosingStep =>
           \A i \in 1..Len(LockHolds(Machine(0))) :
               LockHolds(Machine(0))[i].records <= 1]_vars

\* ------------------------------------------------- where the trailer is put
\* the end of the file once the open chunk, if any, is closed: its
\* compressed body is flushed and one INDEX_DATA record follows per topic
EndOfChunks ==
    Len(disk)
    + (IF chunk_open_
       THEN (IF file_writeMode = "None" THEN 0 ELSE 1)
            + Cardinality(DOMAIN curr_chunk_topic_indexes_)
       ELSE 0)

\* the cells close() rewrites in place: the file header and the header of
\* the open chunk
PatchedAtClose(pos) ==
    pos = file_header_pos_ \/ (chunk_open_ /\ pos = curr_chunk_info_.pos)

\* C31: when close() runs on a bag open in a writable mode, the index_pos it
\* records in the file header is the end of the file after the last chunk's
\* INDEX_DATA records, and no record of a chunk or of an index that was in
\* the file is overwritten, whatever writes and random-access reads came
\* before the close.
C31_TrailerAtEnd ==
    [][ClosingStep =>
           /\ disk'[file_header_pos_ + 1].op = "FILE_HEADER"
           /\ disk'[file_header_pos_ + 1].index_pos = EndOfChunks
           /\ \A pos \in 0..(Len(disk) - 1) :
                  ~PatchedAtClose(pos) => disk'[pos + 1] = disk[pos + 1]]_vars

\* ------------------------------------------------------ a reversed time range
\* the last call on the bag was getMessagesByTopic with start_time > end_time
ReversedRangeQueried == messages.called /\ messages.start_time > messages.end_time

\* C32: getMessagesByTopic with start_time > end_time returns an empty
\* sequence: no cursor it creates begins after its end, and none is advanced
\* past the end of its topic's index.
C32_ReversedRangeEmpty ==
    ReversedRangeQueried => (~messages.crashed /\ messages.out = <<>>)

\* ------------------------------------------------------- a Bag used again
\* the last open of the file was open(Write) on a Bag object that had been
\* opened before
ReusedForWrite ==
    /\ sessions # <<>>
    /\ sessions[Len(sessions)].mode = "Write"
    /\ ~sessions[Len(sessions)].fresh
    /\ sessions[Len(sessions)].ok

\* the records of the file with the given op
RecordsOf(d, op) == SelectSeq(d, LAMBDA cell : cell.op = op)

\* C33: a Bag object used for a second write session starts clean. While
\* the new file is open its placeholder header carries index_pos = 0,
\* topic_count = 0 and chunk_count = 0; the trailer written at the second
\* close lists the chunks and the topics of the second session only, one
\* CHUNK_INFO record for each chunk of the file and one MSG_DEF record for
\* each topic written.
C33_ReuseStartsClean ==
    /\ (ReusedForWrite /\ file_isOpen) =>
           /\ disk[2].op = "FILE_HEADER"
           /\ disk[2].index_pos = 0
           /\ disk[2].topic_count = 0
           /\ disk[2].chunk_count = 0
    /\ (ReusedForWrite /\ ~file_isOpen /\ sessions[Len(sessions)].ended = "closed") =>
           /\ disk[2].chunk_count = Len(RecordsOf(disk, "CHUNK"))
           /\ Len(RecordsOf(TrailerOf(disk), "CHUNK_INFO")) = Len(RecordsOf(disk, "CHUNK"))
           /\ \A i \in 1..Len(TrailerOf(disk)) :
                  TrailerOf(disk)[i].op = "CHUNK_INFO" =>
                      /\ TrailerOf(disk)[i].chunk_pos < Len(disk)
                      /\ disk[TrailerOf(disk)[i].chunk_pos + 1].op = "CHUNK"
           /\ {cell.topic : cell \in Range(RecordsOf(TrailerOf(disk), "MSG_DEF"))}
                  = {history[i].topic : i \in 1..Len(history)}

====
